---------------------------- MODULE Spec2Model ----------------------------
(***************************************************************************)
(* TrendMonitor (src/trend_monitor/monitor.py): one update() is a fetch    *)
(* phase - one task per source, bounded by a semaphore, retried on         *)
(* SourceError - followed by one uninterrupted admission / prune / sweep   *)
(* step over the event buffer and the two dedup maps.                      *)
(*                                                                         *)
(* Spec      takes a whole update() as one step (the monitor is not        *)
(*           reentrant and the buffer is only touched after gather()); it  *)
(*           explores the buffer under every response pattern.             *)
(* SpecFetch takes every suspension point of the fetch tasks as a step; it *)
(*           explores retries, the semaphore and the per-source results.   *)
(* Both end an update with the same operator, Ingested.                    *)
(* SpecFetchFair is the fetch phase under the fairness of the event loop,  *)
(*           for termination; SpecTtl is Spec for a dedup_ttl argument of  *)
(*           zero.                                                         *)
(*                                                                         *)
(* The objects around the monitor have specifications of their own:        *)
(* SpecRss    RSSSource.fetch (sources.py) as request and response, with   *)
(*            the video adapter and the give-up result of fetch_source;    *)
(* SpecStore  SQLiteTrendStorage.save (storage.py), statement by statement *)
(*            inside its transaction;                                      *)
(* SpecDriver main() and the steps of one update() around the store;       *)
(* SpecShutdown  SpecDriver with the signals and Ctrl+C that end main();    *)
(* SpecScore  score_trends (analysis.py) and the filter of update_async;   *)
(* SpecLang   detect_language (analysis.py);                               *)
(* SpecNorm   _normalize_token and SpecKeywords extract_keywords           *)
(*            (analysis.py), letter by letter;                             *)
(* SpecCollector  MetricsCollector (metrics.py), two threads around its    *)
(*            lock;                                                        *)
(* SpecFactory  _build_sources (monitor.py), one configuration at a time.  *)
(* Every specification keeps the variables of the others at their initial  *)
(* values.                                                                 *)
(*                                                                         *)
(* Time is counted in whole ticks.  Strings are sequences of one-character *)
(* strings so that "|".join(...) is real concatenation.  SHA-1 is taken to *)
(* be collision free: a fingerprint is the tagged joined string.           *)
(***************************************************************************)
EXTENDS Integers, Sequences, FiniteSets, TLC

\* ----------------------------------------------------------------- bounds
MaxTime == 2
MaxEvents == 3
\* save() calls that return, per store
MaxSaves == 3
\* items handed to score_trends
MaxItems == 3
\* length of a run of one letter in a text
MaxRun == 6
\* calls the threads make on one MetricsCollector
MaxCalls == 3
\* configurations handed to _build_sources
MaxConfigs == 4
\* update() calls main() makes
MaxUpdates == 3

\* ----------------------------------------------------------------- values
\* Python None where a time or a duration is expected (both are >= 0 here)
None == 0 - 1
Times == 0..MaxTime
SEP == <<"|">>

Max(a, b) == IF a >= b THEN a ELSE b

\* SourceItem(id, title, url, published, summary, language); the summary is
\* read neither by the fingerprint nor by the monitor and is left out.
Item(id, url, title, published, language) ==
    [id |-> id, url |-> url, title |-> title, published |-> published,
     language |-> language]

\* datetime.isoformat(): one token that never contains the separator
IsoFormat(t) == <<ToString(t)>>

\* SourceItem.fingerprint
Fingerprint(item) ==
    <<"sha1:">> \o item.id \o SEP \o item.url \o SEP \o item.title
               \o SEP \o IsoFormat(item.published) \o SEP \o item.language

\* The items the sources of the model can return: an old and a republished
\* entry under one guid, and an old and a fresh entry without id.
ItemOld   == Item(<<"a">>, <<"u">>, <<"t">>, 0, <<"e", "n">>)
ItemEdit  == Item(<<"a">>, <<"u">>, <<"v">>, MaxTime, <<"e", "n">>)
ItemAnon  == Item(<<>>, <<"u">>, <<"t">>, 0, <<"e", "n">>)
ItemAnon2 == Item(<<>>, <<"u">>, <<"v">>, MaxTime, <<"e", "n">>)
ItemPool  == {ItemOld, ItemEdit, ItemAnon, ItemAnon2}

Ids == {it.id : it \in ItemPool}
Fps == {Fingerprint(it) : it \in ItemPool}

\* ------------------------------------------------------------- dict helpers
EmptyMap == [k \in {} |-> 0]
Put(m, k, v) == [x \in (DOMAIN m) \cup {k} |-> IF x = k THEN v ELSE m[x]]
Del(m, k) == [x \in (DOMAIN m) \ {k} |-> m[x]]

\* ------------------------------------------------------------------ state
VARIABLES
    \* TrendMonitor.__init__ arguments after clamping (never change)
    sources,                \* list of source configurations, in list order
    feeds,                  \* per source: which item lists its fetch() can return
    retention,
    dedup_ttl_arg,          \* the dedup_ttl argument as given: None or a duration
    dedup_ttl,
    fetch_retry_attempts,
    fetch_retry_backoff,
    fetch_concurrency,
    \* TrendMonitor fields
    events,                 \* deque of Event records, front first
    seen_by_id,             \* dict item.id -> expiry
    seen_by_fp,             \* dict fingerprint -> expiry
    \* the running update_async() call; its locals are gone when it returns
    phase,                  \* "idle" | "fetch"
    now,                    \* the time captured by the running / last update
    semaphore,              \* free permits of asyncio.Semaphore
    pc,                     \* per task: "start" | "waiting" | "fetching" | "sleeping" | "done"
    attempt,                \* per task: loop variable of fetch_source
    outcome,                \* per task: "none" | "ok" | "not_modified" | "failed"
    fetch_results,          \* per task: items of the FetchResult it returned
    finished,               \* tasks that are done, in order of completion
    wait_time,              \* per task: wait_time of the except branch it ran last, in
                            \* tenths of a second; None once the next attempt began
    \* per source, counted since the start of the current update
    calls,                  \* source.fetch() invocations
    raised,                 \* SourceError raised by source.fetch()
    m_attempts, m_success, m_not_modified, m_failures, m_retries,
    \* what the current update did once it has returned (empty before)
    admitted,               \* events appended by its admission loop, in order
    skipped,                \* items its admission loop passed over (continue)
    new_events,             \* its local counter, passed to record_new_events
    live_items,             \* items it handed to score_trends
    failed_sources,         \* sources that gave up in it
    \* history, kept for the properties only
    first_admit,            \* per id: time of its first admission, or None
    admissions,             \* per id: events ever appended for it, counted up to 2
    pruned_ids              \* ids of the events popped by _prune so far

\* RSSSource (src/trend_monitor/sources.py) and what a fetch() call produced
VARIABLES
    last_modified,          \* RSSSource._last_modified: None or a string
    last_etag,              \* RSSSource._last_etag: None or a string
    rss_pc,                 \* "idle" | "requesting" (fetch() awaits the request)
    request_headers,        \* conditional headers of the request sent last
    produced,               \* what the last fetch call returned or raised
    \* history, kept for the properties only
    last_response,          \* the response the last finished fetch() received
    seen_2xx                \* some fetch() has received a 2xx response

\* SQLiteTrendStorage (src/trend_monitor/storage.py)
VARIABLES
    conn_open,              \* _conn: TRUE from sqlite3.connect until close()
    store_retention,        \* config.retention: None or a duration
    vacuum_every,           \* config.vacuum_every
    save_counter,           \* _save_counter
    tables,                 \* the three tables as the connection sees them
    committed,              \* the three tables as committed to the file
    store_pc,               \* position of the running save(): "idle" |
                            \* "snapshot" | "rows" | "delete" | "exit" |
                            \* "count" | "vacuum"
    save_args,              \* arguments of the running / last save()
    snapshot_id,            \* local of save(): id of the inserted snapshot
    trend_id,               \* local of save(): id of the inserted trend
    pending_trends,         \* trends the outer loop has not reached yet
    pending_items,          \* items the inner loop has not reached yet
    save_outcome,           \* "none" | "returned" | "raised"
    vacuumed,               \* the last save() ran VACUUM
    \* history, kept for the properties only
    before,                 \* committed tables when the running save() began
    saves,                  \* generated_at of the saves that returned, in order
    rolled_back             \* the connection's tables when the last save() failed
                            \* and left its block, before the rollback

\* main() and the update() it drives (src/trend_monitor/monitor.py)
VARIABLES
    once,                   \* args.once
    storage_on,             \* the monitor was given a storage
    driver_pc,              \* "loop" | "print" | "sleep" | "exited" | "crashed" |
                            \* "stopped" (SystemExit(0) left main())
    iter_pc,                \* position of the running update(): "idle" | "fetch" |
                            \* "analysis" | "save" | "saving"
    iter_now,               \* the now captured by the running / last update()
    computed,               \* the filtered trends of the running / last update()
    update_result,          \* what the last update() returned or that it raised
    failure,                \* what raised in the last update(): "none" | "fetch" |
                            \* "analysis" | "save"
    snapshots_saved,        \* MetricsCollector: snapshots_saved
    exit_code,              \* return value of main(), None while it runs
    \* history, kept for the properties only
    updates,                \* update() calls made so far
    prints,                 \* trend lists printed so far
    sleeps,                 \* interval sleeps that are over
    save_calls              \* storage.save() calls of the running / last update()

\* the functions of src/trend_monitor/analysis.py and their callers' locals
VARIABLES
    score_pc,               \* "input" | "scored" | "filtered"
    scored_items,           \* score_trends: items, in iteration order
    score_now,              \* score_trends: now
    decay_hours,            \* score_trends: decay_hours
    title_weight,           \* score_trends: title_weight
    summary_weight,         \* score_trends: summary_weight
    weight_by_keyword,      \* score_trends: the Counter, before rounding
    trends_out,             \* the list score_trends returned
    min_score,              \* TrendMonitor.min_score
    top_k,                  \* TrendMonitor.top_k
    filtered_out,           \* update_async: filtered
    lang_pc,                \* "input" | "detected"
    lang_text,              \* detect_language: text
    lang_out                \* what detect_language returned, "" before the call

\* _normalize_en and extract_keywords (src/trend_monitor/analysis.py)
VARIABLES
    norm_pc,                \* "input" | "normalized"
    norm_token,             \* _normalize_en: token
    norm_out,               \* what _normalize_en returned, <<>> before the call
    kw_pc,                  \* "input" | "extracted"
    kw_text,                \* extract_keywords: text
    kw_language,            \* extract_keywords: language, "" for None
    kw_out                  \* what extract_keywords returned, <<>> before the call

words == <<norm_pc, norm_token, norm_out, kw_pc, kw_text, kw_language, kw_out>>

\* MetricsCollector (src/trend_monitor/metrics.py) and the threads that call it
VARIABLES
    mc_lock,                \* _lock: the thread that holds it, or None
    mc_snapshot,            \* _snapshot: key -> value
    thread_pc,              \* per thread: "idle" | "acquire" | "locked" | "read" |
                            \* "release"
    thread_call,            \* per thread: the call it is in, or the last one
    thread_read,            \* per thread: what _snapshot.get(key, 0.0) gave it
    thread_result,          \* per thread: the dict its last snapshot() returned
    \* history, kept for the properties only
    calls_made,             \* calls made so far, by all threads
    recorded,               \* key -> sum of the amounts of the _inc calls that returned
    applied,                \* key -> sum of the amounts written so far
    thread_applied,         \* per thread: applied when its last snapshot() copied
    thread_alone            \* per thread: no other thread was inside the lock then

collector == <<mc_lock, mc_snapshot, thread_pc, thread_call, thread_read,
               thread_result, calls_made, recorded, applied, thread_applied,
               thread_alone>>

\* _build_sources (src/trend_monitor/monitor.py)
VARIABLES
    build_pc,               \* "loop" | "returned"
    build_configs,          \* _build_sources: configs, each by its kind
    build_pending,          \* configs the loop has not reached yet
    build_sources           \* _build_sources: sources, the list it builds

factory == <<build_pc, build_configs, build_pending, build_sources>>

conf == <<sources, feeds, retention, dedup_ttl_arg, dedup_ttl, fetch_retry_attempts,
          fetch_retry_backoff, fetch_concurrency>>
buffer == <<events, seen_by_id, seen_by_fp>>
tasks == <<semaphore, pc, attempt, outcome, fetch_results, finished>>
metrics == <<calls, raised, m_attempts, m_success, m_not_modified, m_failures, m_retries>>
lastrun == <<admitted, skipped, new_events, live_items, failed_sources>>
history == <<first_admit, admissions, pruned_ids>>
waits == <<wait_time>>
monitor == <<conf, buffer, phase, now, tasks, waits, metrics, lastrun, history>>
rss == <<last_modified, last_etag, rss_pc, request_headers, produced,
         last_response, seen_2xx>>
store == <<conn_open, store_retention, vacuum_every, save_counter, tables, committed,
           store_pc, save_args, snapshot_id, trend_id, pending_trends,
           pending_items, save_outcome, vacuumed, before, saves,
           rolled_back>>
driver == <<once, storage_on, driver_pc, iter_pc, iter_now, computed,
            update_result, failure, snapshots_saved, exit_code, updates,
            prints, sleeps, save_calls>>
analysis == <<score_pc, scored_items, score_now, decay_hours, title_weight,
              summary_weight, weight_by_keyword, trends_out, min_score, top_k,
              filtered_out, lang_pc, lang_text, lang_out>>
\* everything outside the monitor
elsewhere == <<rss, store, driver, analysis, words, collector, factory>>
vars == <<monitor, elsewhere>>

Src == DOMAIN sources

\* ------------------------------------------------------ TrendMonitor.__init__
\* a constructor that falls back to the retention for None only
EffectiveTtlNoneOnly(arg, ret) == IF arg = None THEN ret ELSE arg

\* self.dedup_ttl = dedup_ttl or retention  (None and timedelta(0) are falsy)
EffectiveTtl(arg, ret) == IF arg = None \/ arg = 0 THEN ret ELSE arg

\* ------------------------------------------------- fetch_source: the budget
SourceConfig(max_retries, retry_backoff) ==
    [has_config |-> TRUE, max_retries |-> max_retries, retry_backoff |-> retry_backoff]
\* a source object without a config attribute
NoConfig == [has_config |-> FALSE, max_retries |-> 0, retry_backoff |-> 0]

\* the budget taken from the monitor alone, whatever the source's config says
AttemptsMonitorOnly(s) == fetch_retry_attempts

Attempts(s) ==
    IF sources[s].has_config
    THEN Max(1, sources[s].max_retries)
    ELSE fetch_retry_attempts

\* if attempt == attempts
LastAttempt(s, a) == a = Attempts(s)

Backoff(s) ==
    IF sources[s].has_config
    THEN Max(0, sources[s].retry_backoff)
    ELSE fetch_retry_backoff

RECURSIVE Pow(_, _)
Pow(b, e) == IF e = 0 THEN 1 ELSE b * Pow(b, e - 1)

\* a delay that takes the power of the attempt's number
DelayFromAttempt(s, a) == LET b == Backoff(s) IN Max(0, IF b <= 1 THEN b ELSE Pow(b, a))

\* delay = backoff if backoff <= 1 else backoff ** (attempt - 1)
\* delay = max(0.0, delay)
Delay(s, a) == LET b == Backoff(s) IN Max(0, IF b <= 1 THEN b ELSE Pow(b, a - 1))

\* jitter = random.uniform(0.5, 1.5), in tenths: both ends and the middle
Jitters == {5, 10, 15}

\* wait_time = delay * jitter, in tenths of a second
WaitTime(s, a, jitter) == Delay(s, a) * jitter

\* ------------------------------------------------------------ dedup helpers
\* _is_seen that consults the fingerprint map only
IsSeenFpOnly(by_id, by_fp, item_id, fp, t) ==
    fp \in DOMAIN by_fp /\ by_fp[fp] > t

\* _is_seen with expiry >= now: an entry that expires now still blocks
IsSeenInclusive(by_id, by_fp, item_id, fp, t) ==
    IF item_id \in DOMAIN by_id /\ by_id[item_id] >= t
    THEN TRUE
    ELSE fp \in DOMAIN by_fp /\ by_fp[fp] >= t

\* TrendMonitor._is_seen
IsSeen(by_id, by_fp, item_id, fp, t) ==
    IF item_id \in DOMAIN by_id /\ by_id[item_id] > t
    THEN TRUE
    ELSE fp \in DOMAIN by_fp /\ by_fp[fp] > t

\* Event(source=source.name, item=item, fingerprint=fingerprint, seen_at=now);
\* a source is named by its place in the source list
Event(source, item, t) ==
    [source |-> source, item |-> item, fingerprint |-> Fingerprint(item), seen_at |-> t]

\* self.events.append(...)
AppendEvent(evs, e) == Append(evs, e)

\* expiry = now + self.dedup_ttl
Expiry(t, ttl) == t + ttl

\* if item.id: self._seen_by_id[item.id] = expiry
RememberId(by_id, item, expiry) ==
    IF item.id # <<>> THEN Put(by_id, item.id, expiry) ELSE by_id

\* body of the inner admission loop for one item
AdmitItem(st, source, item, t, ttl) ==
    LET fp == Fingerprint(item) IN
    IF IsSeen(st.by_id, st.by_fp, item.id, fp, t)
    THEN [st EXCEPT !.skipped = @ \cup {item}]
    ELSE LET e == Event(source, item, t) IN
         [events   |-> AppendEvent(st.events, e),
          by_id    |-> RememberId(st.by_id, item, Expiry(t, ttl)),
          by_fp    |-> Put(st.by_fp, fp, Expiry(t, ttl)),
          admitted |-> Append(st.admitted, e),
          skipped  |-> st.skipped]

RECURSIVE AdmitItems(_, _, _, _, _)
AdmitItems(st, source, items, t, ttl) ==
    IF items = <<>> THEN st
    ELSE AdmitItems(AdmitItem(st, source, Head(items), t, ttl), source, Tail(items), t, ttl)

\* results taken from the last source of the list to the first
ZipOrderReversed(n) == [i \in 1..n |-> n + 1 - i]

\* results taken in the order in which the tasks completed
ZipOrderCompleted(n) == finished

\* zip(self.sources, fetch_results): gather() returns results in argument order
ZipOrder(n) == [i \in 1..n |-> i]

RECURSIVE AdmitSources(_, _, _, _, _)
AdmitSources(st, order, results, t, ttl) ==
    IF order = <<>> THEN st
    ELSE AdmitSources(AdmitItems(st, Head(order), results[Head(order)], t, ttl),
                      Tail(order), results, t, ttl)

\* while self.events and self.events[0].item.published < threshold
Stale(evs, t, ret) == evs # <<>> /\ Head(evs).item.published < t - ret

\* a popleft that leaves the dedup marks of the event in place
PopEventKeepsMarks(st) ==
    LET e == Head(st.events) IN
    [events |-> Tail(st.events),
     by_id  |-> st.by_id,
     by_fp  |-> st.by_fp,
     popped |-> st.popped \cup {e.item.id}]

\* event = self.events.popleft() and the two del statements
PopEvent(st) ==
    LET e == Head(st.events) IN
    [events |-> Tail(st.events),
     by_id  |-> Del(st.by_id, e.item.id),
     by_fp  |-> Del(st.by_fp, e.fingerprint),
     popped |-> st.popped \cup {e.item.id}]

\* TrendMonitor._prune
RECURSIVE Prune(_, _, _)
Prune(st, t, ret) ==
    IF Stale(st.events, t, ret) THEN Prune(PopEvent(st), t, ret) ELSE st

\* _cleanup_seen with expiry < now: an entry that expires now survives
CleanupSeenStrict(m, t) == [k \in {x \in DOMAIN m : ~(m[x] < t)} |-> m[k]]

\* TrendMonitor._cleanup_seen, for one of the two maps
CleanupSeen(m, t) == [k \in {x \in DOMAIN m : ~(m[x] <= t)} |-> m[k]]

UpTo2(n) == IF n >= 2 THEN 2 ELSE n
WithId(evs, id) == {i \in DOMAIN evs : evs[i].item.id = id}

\* update_async from the return of gather() to its own return: admission
\* loop, record_new_events, _prune, _cleanup_seen, the input of score_trends.
\* No await occurs in this part.
Ingested(results, t) ==
    LET st0 == [events |-> events, by_id |-> seen_by_id, by_fp |-> seen_by_fp,
                admitted |-> <<>>, skipped |-> {}]
    IN \E st1 \in {AdmitSources(st0, ZipOrder(Len(sources)), results, t, dedup_ttl)} :
       /\ Len(st1.events) <= MaxEvents
       /\ \E st2 \in {Prune([events |-> st1.events, by_id |-> st1.by_id,
                              by_fp |-> st1.by_fp, popped |-> {}], t, retention)} :
             /\ events' = st2.events
             /\ seen_by_id' = CleanupSeen(st2.by_id, t)
             /\ seen_by_fp' = CleanupSeen(st2.by_fp, t)
             /\ live_items' = [i \in DOMAIN st2.events |-> st2.events[i].item]
             /\ pruned_ids' = pruned_ids \cup st2.popped
       /\ admitted' = st1.admitted
       /\ skipped' = st1.skipped
       /\ new_events' = Len(st1.admitted)
       /\ first_admit' = [id \in Ids |->
             IF first_admit[id] = None /\ WithId(st1.admitted, id) # {}
             THEN t ELSE first_admit[id]]
       /\ admissions' = [id \in Ids |->
             UpTo2(admissions[id] + Cardinality(WithId(st1.admitted, id)))]

\* What a feed can carry.  "full": up to two different items of the pool, in
\* any order; the others: a few lists that share or repeat items.
FullFeed ==
    {<<>>} \cup {<<a>> : a \in ItemPool}
           \cup ({<<a, b>> : a \in ItemPool, b \in ItemPool} \ {<<a, a>> : a \in ItemPool})
PairFeed == {<<>>, <<ItemOld>>, <<ItemEdit, ItemOld>>}
TwinFeed == {<<ItemOld, ItemOld>>, <<ItemAnon2, ItemAnon>>}
OneFeed == {<<ItemOld>>}
NoFeed == {<<>>}
Feed(kind) ==
    CASE kind = "full" -> FullFeed
      [] kind = "pair" -> PairFeed
      [] kind = "twin" -> TwinFeed
      [] kind = "one" -> OneFeed
      [] kind = "none" -> NoFeed

\* ------------------------------------------------------------ initial state
\* the locals of update_async while no update runs
NoTasks ==
    /\ semaphore = fetch_concurrency
    /\ pc = [s \in Src |-> "done"]
    /\ attempt = [s \in Src |-> 1]
    /\ outcome = [s \in Src |-> "none"]
    /\ fetch_results = [s \in Src |-> <<>>]
    /\ finished = <<>>
    /\ wait_time = [s \in Src |-> None]

\* TrendMonitor(sources, retention=..., dedup_ttl=..., fetch_retry_attempts=...,
\*              fetch_retry_backoff=..., fetch_concurrency=...)
Construct(srcs, fds, ret, ttl_arg, retry_arg, backoff_arg, conc_arg) ==
    /\ sources = srcs
    /\ feeds = fds
    /\ retention = ret
    /\ dedup_ttl_arg = ttl_arg
    /\ dedup_ttl = EffectiveTtl(ttl_arg, ret)
    /\ fetch_retry_attempts = Max(1, retry_arg)
    /\ fetch_retry_backoff = Max(0, backoff_arg)
    /\ fetch_concurrency = Max(1, conc_arg)
    /\ events = <<>>
    /\ seen_by_id = EmptyMap
    /\ seen_by_fp = EmptyMap
    /\ phase = "idle"
    /\ now = 0
    /\ NoTasks
    /\ calls = [s \in Src |-> 0]
    /\ raised = [s \in Src |-> 0]
    /\ m_attempts = [s \in Src |-> 0]
    /\ m_success = [s \in Src |-> 0]
    /\ m_not_modified = [s \in Src |-> 0]
    /\ m_failures = [s \in Src |-> 0]
    /\ m_retries = [s \in Src |-> 0]
    /\ admitted = <<>>
    /\ skipped = {}
    /\ new_events = 0
    /\ live_items = <<>>
    /\ failed_sources = {}
    /\ first_admit = [id \in Ids |-> None]
    /\ admissions = [id \in Ids |-> 0]
    /\ pruned_ids = {}

\* ------------------------------------------------- the fetch phase, by steps
\* update_async up to the gather(): capture now, create the semaphore and
\* one fetch task per source.
StartUpdate(t) ==
    /\ phase = "idle"
    /\ t >= now
    /\ phase' = "fetch"
    /\ now' = t
    /\ semaphore' = fetch_concurrency
    /\ pc' = [s \in Src |-> "start"]
    /\ attempt' = [s \in Src |-> 1]
    /\ outcome' = [s \in Src |-> "none"]
    /\ fetch_results' = [s \in Src |-> <<>>]
    /\ finished' = <<>>
    /\ calls' = [s \in Src |-> 0]
    /\ raised' = [s \in Src |-> 0]
    /\ m_attempts' = [s \in Src |-> 0]
    /\ m_success' = [s \in Src |-> 0]
    /\ m_not_modified' = [s \in Src |-> 0]
    /\ m_failures' = [s \in Src |-> 0]
    /\ m_retries' = [s \in Src |-> 0]
    /\ admitted' = <<>>
    /\ skipped' = {}
    /\ new_events' = 0
    /\ live_items' = <<>>
    /\ failed_sources' = {}
    /\ wait_time' = [s \in Src |-> None]
    /\ UNCHANGED <<elsewhere, conf, buffer, history>>

\* an async with that does not give its permit back
NotReleased(sem) == sem

\* async with semaphore, on the way out (return or exception)
Released(sem) == sem + 1

\* a semaphore that never makes a task wait
HasPermitAlways(sem) == TRUE

\* async with semaphore: a permit is free
HasPermit(sem) == sem > 0

\* top of the retry loop: record the attempt, then take a permit and call
\* source.fetch(), or queue on the semaphore
BeginAttempt(s) ==
    /\ phase = "fetch"
    /\ pc[s] = "start"
    /\ m_attempts' = [m_attempts EXCEPT ![s] = @ + 1]
    /\ \/ /\ HasPermit(semaphore)
          /\ semaphore' = semaphore - 1
          /\ pc' = [pc EXCEPT ![s] = "fetching"]
          /\ calls' = [calls EXCEPT ![s] = @ + 1]
       \/ /\ ~HasPermit(semaphore)
          /\ pc' = [pc EXCEPT ![s] = "waiting"]
          /\ UNCHANGED <<semaphore, calls>>
    /\ wait_time' = [wait_time EXCEPT ![s] = None]
    /\ UNCHANGED <<elsewhere, conf, buffer, phase, now, attempt, outcome, fetch_results,
                   finished, raised, m_success, m_not_modified, m_failures,
                   m_retries, lastrun, history>>

\* a queued task gets a permit and calls source.fetch()
Acquire(s) ==
    /\ phase = "fetch"
    /\ pc[s] = "waiting"
    /\ HasPermit(semaphore)
    /\ semaphore' = semaphore - 1
    /\ pc' = [pc EXCEPT ![s] = "fetching"]
    /\ calls' = [calls EXCEPT ![s] = @ + 1]
    /\ UNCHANGED <<elsewhere, waits, conf, buffer, phase, now, attempt, outcome, fetch_results,
                   finished, raised, m_attempts, m_success, m_not_modified,
                   m_failures, m_retries, lastrun, history>>

\* FetchResult(items, not_modified)
FetchResult(items, not_modified) == [items |-> items, not_modified |-> not_modified]

\* What source.fetch() of source s can return: a list of its feed, or the
\* empty not-modified answer.
Returns(s) ==
    {FetchResult(items, FALSE) : items \in Feed(feeds[s])} \cup {FetchResult(<<>>, TRUE)}

\* a return that counts a not-modified result as a success as well
FetchReturnCountsBoth(s, result) ==
    /\ phase = "fetch"
    /\ pc[s] = "fetching"
    /\ semaphore' = Released(semaphore)
    /\ m_success' = [m_success EXCEPT ![s] = @ + 1]
    /\ IF result.not_modified
       THEN m_not_modified' = [m_not_modified EXCEPT ![s] = @ + 1]
       ELSE UNCHANGED m_not_modified
    /\ outcome' = [outcome EXCEPT ![s] = IF result.not_modified THEN "not_modified" ELSE "ok"]
    /\ fetch_results' = [fetch_results EXCEPT ![s] = result.items]
    /\ pc' = [pc EXCEPT ![s] = "done"]
    /\ finished' = Append(finished, s)
    /\ UNCHANGED <<elsewhere, waits, conf, buffer, phase, now, attempt, calls, raised,
                   m_attempts, m_failures, m_retries, lastrun, history>>

\* a retry loop that records the success but does not return from inside
\* the loop: it goes on to the next attempt while one is left
FetchReturnContinue(s, result) ==
    /\ phase = "fetch"
    /\ pc[s] = "fetching"
    /\ semaphore' = Released(semaphore)
    /\ IF result.not_modified
       THEN /\ m_not_modified' = [m_not_modified EXCEPT ![s] = @ + 1]
            /\ UNCHANGED m_success
       ELSE /\ m_success' = [m_success EXCEPT ![s] = @ + 1]
            /\ UNCHANGED m_not_modified
    /\ outcome' = [outcome EXCEPT ![s] = IF result.not_modified THEN "not_modified" ELSE "ok"]
    /\ fetch_results' = [fetch_results EXCEPT ![s] = result.items]
    /\ IF LastAttempt(s, attempt[s])
       THEN /\ pc' = [pc EXCEPT ![s] = "done"]
            /\ finished' = Append(finished, s)
            /\ UNCHANGED attempt
       ELSE /\ pc' = [pc EXCEPT ![s] = "start"]
            /\ attempt' = [attempt EXCEPT ![s] = @ + 1]
            /\ UNCHANGED finished
    /\ UNCHANGED <<elsewhere, waits, conf, buffer, phase, now, calls, raised,
                   m_attempts, m_failures, m_retries, lastrun, history>>

\* source.fetch() returns a FetchResult: the permit is released, the success
\* is recorded and fetch_source returns the result
FetchReturn(s, result) ==
    /\ phase = "fetch"
    /\ pc[s] = "fetching"
    /\ semaphore' = Released(semaphore)
    /\ IF result.not_modified
       THEN /\ m_not_modified' = [m_not_modified EXCEPT ![s] = @ + 1]
            /\ UNCHANGED m_success
       ELSE /\ m_success' = [m_success EXCEPT ![s] = @ + 1]
            /\ UNCHANGED m_not_modified
    /\ outcome' = [outcome EXCEPT ![s] = IF result.not_modified THEN "not_modified" ELSE "ok"]
    /\ fetch_results' = [fetch_results EXCEPT ![s] = result.items]
    /\ pc' = [pc EXCEPT ![s] = "done"]
    /\ finished' = Append(finished, s)
    /\ UNCHANGED <<elsewhere, waits, conf, buffer, phase, now, attempt, calls, raised,
                   m_attempts, m_failures, m_retries, lastrun, history>>

\* an except branch that records a failure for every SourceError, not only
\* for the one that exhausts the budget
FetchRaiseCountsEach(s) ==
    /\ phase = "fetch"
    /\ pc[s] = "fetching"
    /\ semaphore' = Released(semaphore)
    /\ raised' = [raised EXCEPT ![s] = @ + 1]
    /\ m_failures' = [m_failures EXCEPT ![s] = @ + 1]
    /\ \/ /\ LastAttempt(s, attempt[s])
          /\ outcome' = [outcome EXCEPT ![s] = "failed"]
          /\ fetch_results' = [fetch_results EXCEPT ![s] = <<>>]
          /\ pc' = [pc EXCEPT ![s] = "done"]
          /\ finished' = Append(finished, s)
          /\ UNCHANGED <<attempt, m_retries, wait_time>>
       \/ /\ ~LastAttempt(s, attempt[s])
          /\ m_retries' = [m_retries EXCEPT ![s] = @ + 1]
          /\ \E jitter \in Jitters :
                wait_time' = [wait_time EXCEPT ![s] = WaitTime(s, attempt[s], jitter)]
          /\ IF wait_time'[s] # 0
             THEN /\ pc' = [pc EXCEPT ![s] = "sleeping"]
                  /\ UNCHANGED attempt
             ELSE /\ pc' = [pc EXCEPT ![s] = "start"]
                  /\ attempt' = [attempt EXCEPT ![s] = @ + 1]
          /\ UNCHANGED <<outcome, fetch_results, finished>>
    /\ UNCHANGED <<elsewhere, conf, buffer, phase, now, calls, m_attempts,
                   m_success, m_not_modified, lastrun, history>>

\* source.fetch() raises SourceError: the permit is released; on the last
\* attempt the failure is recorded and an empty FetchResult returned, else
\* wait_time is drawn, a retry is recorded and the task sleeps (no sleep when
\* wait_time is 0)
FetchRaise(s) ==
    /\ phase = "fetch"
    /\ pc[s] = "fetching"
    /\ semaphore' = Released(semaphore)
    /\ raised' = [raised EXCEPT ![s] = @ + 1]
    /\ \/ /\ LastAttempt(s, attempt[s])
          /\ m_failures' = [m_failures EXCEPT ![s] = @ + 1]
          /\ outcome' = [outcome EXCEPT ![s] = "failed"]
          /\ fetch_results' = [fetch_results EXCEPT ![s] = <<>>]
          /\ pc' = [pc EXCEPT ![s] = "done"]
          /\ finished' = Append(finished, s)
          /\ UNCHANGED <<attempt, m_retries, wait_time>>
       \/ /\ ~LastAttempt(s, attempt[s])
          /\ m_retries' = [m_retries EXCEPT ![s] = @ + 1]
          /\ \E jitter \in Jitters :
                wait_time' = [wait_time EXCEPT ![s] = WaitTime(s, attempt[s], jitter)]
          /\ IF wait_time'[s] # 0
             THEN /\ pc' = [pc EXCEPT ![s] = "sleeping"]
                  /\ UNCHANGED attempt
             ELSE /\ pc' = [pc EXCEPT ![s] = "start"]
                  /\ attempt' = [attempt EXCEPT ![s] = @ + 1]
          /\ UNCHANGED <<outcome, fetch_results, finished, m_failures>>
    /\ UNCHANGED <<elsewhere, conf, buffer, phase, now, calls, m_attempts,
                   m_success, m_not_modified, lastrun, history>>

\* asyncio.sleep(wait_time) is over: next iteration of the retry loop
Wake(s) ==
    /\ phase = "fetch"
    /\ pc[s] = "sleeping"
    /\ pc' = [pc EXCEPT ![s] = "start"]
    /\ attempt' = [attempt EXCEPT ![s] = @ + 1]
    /\ UNCHANGED <<elsewhere, waits, conf, buffer, phase, now, semaphore, outcome, fetch_results,
                   finished, metrics, lastrun, history>>

\* a wait that returns with the first task that is done
GatherDoneFirst == \E s \in Src : pc[s] = "done"

\* await asyncio.gather(...): over once every task is done
GatherDone == \A s \in Src : pc[s] = "done"

\* gather() returns once every task is done; the rest of update_async runs
\* without a suspension and the call returns
Ingest ==
    /\ phase = "fetch"
    /\ GatherDone
    /\ Ingested(fetch_results, now)
    /\ failed_sources' = {s \in Src : outcome[s] = "failed"}
    /\ phase' = "idle"
    /\ semaphore' = fetch_concurrency
    /\ attempt' = [s \in Src |-> 1]
    /\ outcome' = [s \in Src |-> "none"]
    /\ fetch_results' = [s \in Src |-> <<>>]
    /\ UNCHANGED <<elsewhere, waits, conf, now, pc, finished, metrics>>

NextFetch ==
    \/ \E t \in Times : StartUpdate(t)
    \/ \E s \in Src : BeginAttempt(s)
    \/ \E s \in Src : Acquire(s)
    \/ \E s \in Src : \E result \in Returns(s) : FetchReturn(s, result)
    \/ \E s \in Src : FetchRaise(s)
    \/ \E s \in Src : Wake(s)
    \/ Ingest

\* ------------------------------------------------ a whole update, one step
\* update(): every source either returned a list of its feed or gave up and
\* contributed the empty FetchResult.
Update(t, results) ==
    /\ phase = "idle"
    /\ t >= now
    /\ \A s \in Src : results[s] \in Feed(feeds[s]) \cup {<<>>}
    /\ now' = t
    /\ Ingested(results, t)
    /\ UNCHANGED <<elsewhere, waits, conf, phase, tasks, metrics, failed_sources>>

Next ==
    \E t \in Times : \E results \in [Src -> FullFeed] : Update(t, results)

\* ---------------------------------------------------------------- RSSSource
\* Optional[str]: <<>> is None and <<s>> is the string s
Absent == <<>>

\* Python truthiness of an Optional[str]
Truthy(v) == v # Absent /\ v[1] # ""

\* the part of the request headers that depends on the validators
RequestHeaders(lm, etag) ==
    [if_modified_since |-> IF Truthy(lm) THEN lm ELSE Absent,
     if_none_match     |-> IF Truthy(etag) THEN etag ELSE Absent]

\* A response as fetch() reads it: the status, the two validator headers
\* (response_headers.get gives None for a missing header), whether
\* ET.fromstring accepts the body, and the entries the body parses into.
Response(status, etag, lm, parses, entries) ==
    [status |-> status, etag |-> etag, last_modified |-> lm,
     parses |-> parses, entries |-> entries]

\* no response at all: before the first fetch(), or a network error
NoResponse == Response(0, Absent, Absent, FALSE, <<>>)

\* the responses of the model: four statuses, an ETag that is missing,
\* empty or one of two values, a Last-Modified that is missing or set, and a
\* body that is a feed of no or one entry or is no XML
Responses ==
    LET Statuses == {200, 301, 304, 404}
        ETags == {Absent, <<"">>, <<"x">>, <<"y">>}
        Dates == {Absent, <<"m">>}
    IN  {Response(st, e, m, TRUE, entries) :
            st \in Statuses, e \in ETags, m \in Dates, entries \in {<<>>, <<ItemOld>>}}
        \cup {Response(st, e, m, FALSE, <<>>) :
                st \in Statuses, e \in ETags, m \in Dates}

Is2xx(status) == status >= 200 /\ status < 300

\* what a fetch call produced
Nothing == [kind |-> "none", items |-> <<>>, not_modified |-> FALSE]
Returned(result) ==
    [kind |-> "result", items |-> result.items, not_modified |-> result.not_modified]
Raised == [kind |-> "SourceError", items |-> <<>>, not_modified |-> FALSE]

\* a fetch() that keeps a cached validator when the response has none
RssHandleKeepsMissing(resp, lm, etag) ==
    IF resp.status = 304
    THEN [last_modified |-> lm, last_etag |-> etag,
          produced |-> Returned(FetchResult(<<>>, TRUE))]
    ELSE IF resp.status >= 400
    THEN [last_modified |-> lm, last_etag |-> etag, produced |-> Raised]
    ELSE [last_modified |-> IF resp.last_modified = Absent THEN lm ELSE resp.last_modified,
          last_etag |-> IF resp.etag = Absent THEN etag ELSE resp.etag,
          produced |-> IF resp.parses
                       THEN Returned(FetchResult(resp.entries, FALSE))
                       ELSE Raised]

\* a fetch() that stores the validators of whatever response arrived before
\* it looks at the not-modified flag
RssHandleStoreFirst(resp, lm, etag) ==
    IF resp.status = 304
    THEN [last_modified |-> resp.last_modified, last_etag |-> resp.etag,
          produced |-> Returned(FetchResult(<<>>, TRUE))]
    ELSE IF resp.status >= 400
    THEN [last_modified |-> lm, last_etag |-> etag, produced |-> Raised]
    ELSE [last_modified |-> resp.last_modified, last_etag |-> resp.etag,
          produced |-> IF resp.parses
                       THEN Returned(FetchResult(resp.entries, FALSE))
                       ELSE Raised]

\* fetch() from the arrival of the response on: 304 answers not-modified and
\* stores nothing, a status >= 400 raises SourceError, every other status has
\* its validators stored and then its body parsed (ParseError -> SourceError)
RssHandle(resp, lm, etag) ==
    IF resp.status = 304
    THEN [last_modified |-> lm, last_etag |-> etag,
          produced |-> Returned(FetchResult(<<>>, TRUE))]
    ELSE IF resp.status >= 400
    THEN [last_modified |-> lm, last_etag |-> etag, produced |-> Raised]
    ELSE [last_modified |-> resp.last_modified, last_etag |-> resp.etag,
          produced |-> IF resp.parses
                       THEN Returned(FetchResult(resp.entries, FALSE))
                       ELSE Raised]

\* RSSSource(config)
RssNew ==
    /\ last_modified = Absent
    /\ last_etag = Absent
    /\ rss_pc = "idle"
    /\ request_headers = RequestHeaders(Absent, Absent)
    /\ produced = Nothing
    /\ last_response = NoResponse
    /\ seen_2xx = FALSE

\* fetch() up to the await: build the headers and send the request
RssFetch ==
    /\ rss_pc = "idle"
    /\ rss_pc' = "requesting"
    /\ request_headers' = RequestHeaders(last_modified, last_etag)
    /\ UNCHANGED <<last_modified, last_etag, produced, last_response, seen_2xx>>
    /\ UNCHANGED <<monitor, factory, collector, words, store, driver, analysis>>

\* the request is answered and fetch() runs to its end
RssResponse(resp) ==
    /\ rss_pc = "requesting"
    /\ rss_pc' = "idle"
    /\ \E h \in {RssHandle(resp, last_modified, last_etag)} :
        /\ last_modified' = h.last_modified
        /\ last_etag' = h.last_etag
        /\ produced' = h.produced
    /\ last_response' = resp
    /\ seen_2xx' = (seen_2xx \/ Is2xx(resp.status))
    /\ UNCHANGED request_headers
    /\ UNCHANGED <<monitor, factory, collector, words, store, driver, analysis>>

\* httpx.RequestError: fetch() raises SourceError
RssRequestError ==
    /\ rss_pc = "requesting"
    /\ rss_pc' = "idle"
    /\ produced' = Raised
    /\ last_response' = NoResponse
    /\ UNCHANGED <<last_modified, last_etag, request_headers, seen_2xx>>
    /\ UNCHANGED <<monitor, factory, collector, words, store, driver, analysis>>

\* VideoPageSource.fetch(): one item, or SourceError when the page has no
\* metadata
VideoFetch(has_metadata) ==
    /\ rss_pc = "idle"
    /\ produced' = IF has_metadata
                   THEN Returned(FetchResult(
                            <<Item(<<"v", "i", "d">>, <<"u">>, <<"t">>, 0, <<"e", "n">>)>>,
                            FALSE))
                   ELSE Raised
    /\ UNCHANGED <<last_modified, last_etag, rss_pc, request_headers,
                   last_response, seen_2xx>>
    /\ UNCHANGED <<monitor, factory, collector, words, store, driver, analysis>>

\* fetch_source after the SourceError of its last attempt
GiveUpResult == FetchResult(<<>>, FALSE)

GiveUp ==
    /\ rss_pc = "idle"
    /\ produced = Raised
    /\ produced' = Returned(GiveUpResult)
    /\ UNCHANGED <<last_modified, last_etag, rss_pc, request_headers,
                   last_response, seen_2xx>>
    /\ UNCHANGED <<monitor, factory, collector, words, store, driver, analysis>>

NextRss ==
    \/ RssFetch
    \/ \E resp \in Responses : RssResponse(resp)
    \/ RssRequestError
    \/ \E has_metadata \in BOOLEAN : VideoFetch(has_metadata)
    \/ GiveUp

\* ------------------------------------------------------- SQLiteTrendStorage
\* The store's clock is finer than the monitor's: datetimes are counted in
\* ticks of which TicksPerSecond make a second, so that
\* replace(microsecond=0) has something to cut off.
TicksPerSecond == 2

\* datetime.replace(microsecond=0)
Truncate(t) == t - (t % TicksPerSecond)

\* x.replace(microsecond=0).isoformat(): the text of a naive datetime without
\* a fraction has a fixed width and SQLite's text comparison orders it as the
\* datetime, so the stored text is the truncated tick count
Stored(t) == Truncate(t)

\* Trend(keyword, score, items)
Trend(keyword, score, items) == [keyword |-> keyword, score |-> score, items |-> items]

\* the schema after _init_schema: three empty tables and their AUTOINCREMENT
\* counters (sqlite_sequence)
EmptyTables ==
    [snapshots |-> {}, trends |-> {}, trend_items |-> {},
     seq |-> [snapshots |-> 0, trends |-> 0, trend_items |-> 0]]

\* INSERT INTO snapshots(generated_at) VALUES (?)
InsertSnapshot(tabs, generated_at) ==
    [tabs EXCEPT
        !.snapshots = @ \cup {[id |-> tabs.seq.snapshots + 1,
                               generated_at |-> Stored(generated_at)]},
        !.seq.snapshots = @ + 1]

\* INSERT INTO trends(snapshot_id, keyword, score) VALUES (?, ?, ?)
InsertTrend(tabs, sid, trend) ==
    [tabs EXCEPT
        !.trends = @ \cup {[id |-> tabs.seq.trends + 1, snapshot_id |-> sid,
                            keyword |-> trend.keyword, score |-> trend.score]},
        !.seq.trends = @ + 1]

\* INSERT INTO trend_items(trend_id, title, url, published, summary)
InsertItem(tabs, tid, item) ==
    [tabs EXCEPT
        !.trend_items = @ \cup {[id |-> tabs.seq.trend_items + 1, trend_id |-> tid,
                                 title |-> item.title, url |-> item.url,
                                 published |-> Stored(item.published)]},
        !.seq.trend_items = @ + 1]

\* (generated_at - retention).replace(microsecond=0).isoformat()
Threshold(generated_at, r) == Stored(generated_at - r)

\* a delete that also removes the snapshots at the threshold
DeleteBeforeInclusive(tabs, threshold) ==
    LET kept_snapshots == {sn \in tabs.snapshots : ~(sn.generated_at <= threshold)}
        kept_trends == {tr \in tabs.trends :
                            \E sn \in kept_snapshots : sn.id = tr.snapshot_id}
        kept_items == {it \in tabs.trend_items :
                            \E tr \in kept_trends : tr.id = it.trend_id}
    IN  [tabs EXCEPT !.snapshots = kept_snapshots, !.trends = kept_trends,
                     !.trend_items = kept_items]

\* a delete on a connection that does not enforce the foreign keys
DeleteBeforeNoCascade(tabs, threshold) ==
    [tabs EXCEPT !.snapshots = {sn \in tabs.snapshots : ~(sn.generated_at < threshold)}]

\* DELETE FROM snapshots WHERE generated_at < ?, with foreign_keys = ON and
\* ON DELETE CASCADE on trends.snapshot_id and trend_items.trend_id
DeleteBefore(tabs, threshold) ==
    LET kept_snapshots == {sn \in tabs.snapshots : ~(sn.generated_at < threshold)}
        kept_trends == {tr \in tabs.trends :
                            \E sn \in kept_snapshots : sn.id = tr.snapshot_id}
        kept_items == {it \in tabs.trend_items :
                            \E tr \in kept_trends : tr.id = it.trend_id}
    IN  [tabs EXCEPT !.snapshots = kept_snapshots, !.trends = kept_trends,
                     !.trend_items = kept_items]

\* a connection that commits whatever the block did, also when it raised
WithExitCommits(ok, tabs, comm) == [tables |-> tabs, committed |-> tabs]

\* with self._conn: leaving the block commits, leaving it by an exception
\* rolls back
WithExit(ok, tabs, comm) ==
    IF ok THEN [tables |-> tabs, committed |-> tabs]
          ELSE [tables |-> comm, committed |-> comm]

\* a compaction after every save
VacuumDueAlways(counter, every) == every # 0

\* the counter test after the transaction
VacuumDue(counter, every) == every # 0 /\ counter % every = 0

\* SQLiteTrendStorage(SQLiteStorageConfig(path, retention, vacuum_every)) on
\* a new file
StoreNew(r, every) ==
    /\ conn_open = TRUE
    /\ store_retention = r
    /\ vacuum_every = every
    /\ save_counter = 0
    /\ tables = EmptyTables
    /\ committed = EmptyTables
    /\ store_pc = "idle"
    /\ snapshot_id = None
    /\ trend_id = None
    /\ pending_trends = <<>>
    /\ pending_items = <<>>
    /\ save_args = [trends |-> <<>>, generated_at |-> 0]
    /\ save_outcome = "none"
    /\ vacuumed = FALSE
    /\ before = EmptyTables
    /\ saves = <<>>
    /\ rolled_back = EmptyTables

\* close(): self._conn.close()
Close ==
    /\ conn_open' = FALSE
    /\ UNCHANGED <<store_retention, vacuum_every, save_counter, tables, committed,
                   store_pc, save_args, snapshot_id, trend_id, pending_trends,
                   pending_items, save_outcome, vacuumed, before, saves,
                   rolled_back>>

\* save(trends, generated_at) is called and enters the with block
SaveCall(trends, generated_at) ==
    /\ store_pc = "idle"
    /\ save_counter < MaxSaves
    /\ store_pc' = "snapshot"
    /\ save_args' = [trends |-> trends, generated_at |-> generated_at]
    /\ save_outcome' = "none"
    /\ vacuumed' = FALSE
    /\ before' = committed
    /\ rolled_back' = EmptyTables
    /\ UNCHANGED <<conn_open, store_retention, vacuum_every, save_counter, tables, committed,
                   snapshot_id, trend_id, pending_trends, pending_items, saves>>

\* save() called on the store alone
SaveBegin(trends, generated_at) ==
    /\ SaveCall(trends, generated_at)
    /\ UNCHANGED <<monitor, factory, collector, words, rss, driver, analysis>>

\* where the loops go next: an item of the current trend, the next trend,
\* the retention delete, or the end of the block
AfterRows(trends_left, items_left) ==
    IF items_left # <<>> \/ trends_left # <<>> THEN "rows"
    ELSE IF store_retention # None THEN "delete"
    ELSE "exit"

\* the snapshot row is inserted
SaveSnapshot ==
    /\ store_pc = "snapshot"
    /\ tables' = InsertSnapshot(tables, save_args.generated_at)
    /\ snapshot_id' = tables.seq.snapshots + 1
    /\ pending_trends' = save_args.trends
    /\ pending_items' = <<>>
    /\ store_pc' = AfterRows(save_args.trends, <<>>)
    /\ UNCHANGED <<conn_open, store_retention, vacuum_every, save_counter, committed, save_args,
                   trend_id, save_outcome, vacuumed, before, saves, rolled_back>>
    /\ UNCHANGED <<monitor, factory, collector, words, rss, driver, analysis>>

\* one more row: the next item of the current trend, or else the next trend
SaveRow ==
    /\ store_pc = "rows"
    /\ IF pending_items # <<>>
       THEN /\ tables' = InsertItem(tables, trend_id, Head(pending_items))
            /\ pending_items' = Tail(pending_items)
            /\ store_pc' = AfterRows(pending_trends, Tail(pending_items))
            /\ UNCHANGED <<trend_id, pending_trends>>
       ELSE /\ tables' = InsertTrend(tables, snapshot_id, Head(pending_trends))
            /\ trend_id' = tables.seq.trends + 1
            /\ pending_items' = Head(pending_trends).items
            /\ pending_trends' = Tail(pending_trends)
            /\ store_pc' = AfterRows(Tail(pending_trends), Head(pending_trends).items)
    /\ UNCHANGED <<conn_open, store_retention, vacuum_every, save_counter, committed, save_args,
                   snapshot_id, save_outcome, vacuumed, before, saves, rolled_back>>
    /\ UNCHANGED <<monitor, factory, collector, words, rss, driver, analysis>>

\* the retention delete
SaveDelete ==
    /\ store_pc = "delete"
    /\ tables' = DeleteBefore(tables, Threshold(save_args.generated_at, store_retention))
    /\ store_pc' = "exit"
    /\ UNCHANGED <<conn_open, store_retention, vacuum_every, save_counter, committed, save_args,
                   snapshot_id, trend_id, pending_trends, pending_items,
                   save_outcome, vacuumed, before, saves, rolled_back>>
    /\ UNCHANGED <<monitor, factory, collector, words, rss, driver, analysis>>

\* the block is left normally: the connection commits
SaveCommit ==
    /\ store_pc = "exit"
    /\ \E x \in {WithExit(TRUE, tables, committed)} :
        /\ tables' = x.tables
        /\ committed' = x.committed
    /\ store_pc' = "count"
    /\ UNCHANGED <<conn_open, store_retention, vacuum_every, save_counter, save_args,
                   snapshot_id, trend_id, pending_trends, pending_items,
                   save_outcome, vacuumed, before, saves, rolled_back>>
    /\ UNCHANGED <<monitor, factory, collector, words, rss, driver, analysis>>

\* save() returns to its caller
SaveReturn ==
    /\ save_outcome' = "returned"
    /\ saves' = Append(saves, save_args.generated_at)
    /\ store_pc' = "idle"
    /\ snapshot_id' = None
    /\ trend_id' = None
    /\ pending_trends' = <<>>
    /\ pending_items' = <<>>

\* self._save_counter += 1 and the test of the counter: save() goes on to
\* VACUUM when it is due and returns when it is not
SaveCount ==
    /\ store_pc = "count"
    /\ save_counter' = save_counter + 1
    /\ IF VacuumDue(save_counter + 1, vacuum_every)
       THEN /\ store_pc' = "vacuum"
            /\ UNCHANGED <<save_outcome, saves, snapshot_id, trend_id,
                           pending_trends, pending_items>>
       ELSE SaveReturn
    /\ UNCHANGED <<conn_open, store_retention, vacuum_every, tables, committed, save_args,
                   vacuumed, before, rolled_back>>
    /\ UNCHANGED <<monitor, factory, collector, words, rss, driver, analysis>>

\* with self._conn: self._conn.execute("VACUUM"): the file is rebuilt, the
\* rows and the AUTOINCREMENT counters stay as they are, and save() returns
SaveVacuum ==
    /\ store_pc = "vacuum"
    /\ vacuumed' = TRUE
    /\ SaveReturn
    /\ UNCHANGED <<conn_open, store_retention, vacuum_every, save_counter, tables, committed,
                   save_args, before, rolled_back>>
    /\ UNCHANGED <<monitor, factory, collector, words, rss, driver, analysis>>

\* save() is inside its with self._conn: block
InWith == store_pc \in {"snapshot", "rows", "delete", "exit"}

\* the statement save() is about to execute raises (sqlite3.Error, or the
\* trends iterable raises), or the commit at the end of the block does: the
\* connection rolls back and save() lets the exception through
SaveFail ==
    /\ InWith
    /\ rolled_back' = tables
    /\ \E x \in {WithExit(FALSE, tables, committed)} :
        /\ tables' = x.tables
        /\ committed' = x.committed
    /\ save_outcome' = "raised"
    /\ store_pc' = "idle"
    /\ snapshot_id' = None
    /\ trend_id' = None
    /\ pending_trends' = <<>>
    /\ pending_items' = <<>>
    /\ UNCHANGED <<conn_open, store_retention, vacuum_every, save_counter, save_args,
                   vacuumed, before, saves>>
    /\ UNCHANGED <<monitor, factory, collector, words, rss, driver, analysis>>

\* the calls the store of the model receives
StoreTimes == {0, 2, 5, 8}
StoreTrends == {<<>>, <<Trend(<<"k">>, 1, <<ItemOld>>)>>}

NextStore ==
    \/ \E trends \in StoreTrends : \E g \in StoreTimes : SaveBegin(trends, g)
    \/ SaveSnapshot
    \/ SaveRow
    \/ SaveDelete
    \/ SaveCommit
    \/ SaveCount
    \/ SaveVacuum
    \/ SaveFail

\* ------------------------------------------------- main() and one update()
\* what update() handed to its caller
NotReturned == [kind |-> "none", value |-> <<>>]
ReturnedList(trends) == [kind |-> "list", value |-> trends]
Propagated == [kind |-> "raised", value |-> <<>>]

\* main() up to its loop, with a monitor that has (or has not) a storage
DriverNew(once_arg, storage_arg) ==
    /\ once = once_arg
    /\ storage_on = storage_arg
    /\ driver_pc = "loop"
    /\ iter_pc = "idle"
    /\ iter_now = 0
    /\ computed = <<>>
    /\ update_result = NotReturned
    /\ failure = "none"
    /\ snapshots_saved = 0
    /\ exit_code = None
    /\ updates = 0
    /\ prints = 0
    /\ sleeps = 0
    /\ save_calls = 0

\* iter_trends calls update(): update_async captures now and starts the
\* fetch tasks
IterBegin(t) ==
    /\ driver_pc = "loop"
    /\ iter_pc = "idle"
    /\ t >= iter_now
    /\ updates < MaxUpdates
    /\ iter_pc' = "fetch"
    /\ iter_now' = t
    /\ computed' = <<>>
    /\ update_result' = NotReturned
    /\ failure' = "none"
    /\ updates' = updates + 1
    /\ save_calls' = 0
    /\ UNCHANGED <<once, storage_on, prints, sleeps, driver_pc, snapshots_saved,
                   exit_code>>
    /\ UNCHANGED <<monitor, factory, collector, words, rss, store, analysis>>

\* gather() returns (every SourceError was handled inside fetch_source) and
\* the admission, prune and sweep run
IterGathered ==
    /\ iter_pc = "fetch"
    /\ iter_pc' = "analysis"
    /\ UNCHANGED <<once, storage_on, updates, prints, sleeps, save_calls,
                   driver_pc, iter_now, computed, update_result, failure,
                   snapshots_saved, exit_code>>
    /\ UNCHANGED <<monitor, factory, collector, words, rss, store, analysis>>

\* An exception leaves update_async: nothing on the way catches it - not
\* update_async, not update(), not the generator iter_trends, and main()
\* catches KeyboardInterrupt only - so it ends main().
Raise(what) ==
    /\ failure' = what
    /\ update_result' = Propagated
    /\ iter_pc' = "idle"
    /\ driver_pc' = "crashed"

\* source.fetch() raises something that is not a SourceError: fetch_source
\* does not catch it and gather() raises it
IterFetchRaises ==
    /\ iter_pc = "fetch"
    /\ Raise("fetch")
    /\ UNCHANGED <<once, storage_on, updates, prints, sleeps, save_calls,
                   iter_now, computed, snapshots_saved, exit_code>>
    /\ UNCHANGED <<monitor, factory, collector, words, rss, store, analysis>>

\* update() returns to iter_trends, which yields the list to main()
Return(trends) ==
    /\ update_result' = ReturnedList(trends)
    /\ iter_pc' = "idle"
    /\ driver_pc' = "print"

\* an update that saves a snapshot only when it has a trend
IterAnalysedSkipEmpty(trends) ==
    /\ iter_pc = "analysis"
    /\ computed' = trends
    /\ IF storage_on /\ trends # <<>>
       THEN /\ iter_pc' = "save"
            /\ UNCHANGED <<driver_pc, update_result>>
       ELSE Return(trends)
    /\ UNCHANGED <<once, storage_on, updates, prints, sleeps, save_calls,
                   iter_now, failure, snapshots_saved, exit_code>>
    /\ UNCHANGED <<monitor, factory, collector, words, rss, store, analysis>>

\* score_trends and the filter produce the list; without a storage update()
\* returns it
IterAnalysed(trends) ==
    /\ iter_pc = "analysis"
    /\ computed' = trends
    /\ IF storage_on
       THEN /\ iter_pc' = "save"
            /\ UNCHANGED <<driver_pc, update_result>>
       ELSE Return(trends)
    /\ UNCHANGED <<once, storage_on, updates, prints, sleeps, save_calls,
                   iter_now, failure, snapshots_saved, exit_code>>
    /\ UNCHANGED <<monitor, factory, collector, words, rss, store, analysis>>

\* score_trends raises
IterAnalysisRaises ==
    /\ iter_pc = "analysis"
    /\ Raise("analysis")
    /\ UNCHANGED <<once, storage_on, updates, prints, sleeps, save_calls,
                   iter_now, computed, snapshots_saved, exit_code>>
    /\ UNCHANGED <<monitor, factory, collector, words, rss, store, analysis>>

\* self.storage.save(filtered, generated_at=now)
IterSave ==
    /\ iter_pc = "save"
    /\ SaveCall(computed, iter_now)
    /\ iter_pc' = "saving"
    /\ save_calls' = save_calls + 1
    /\ UNCHANGED <<once, storage_on, updates, prints, sleeps, driver_pc, iter_now,
                   computed, update_result, failure, snapshots_saved, exit_code>>
    /\ UNCHANGED <<monitor, factory, collector, words, rss, analysis>>

\* save() is over: when it returned the snapshot is counted and update()
\* returns the list; when it raised the exception goes on
IterSaved ==
    /\ iter_pc = "saving"
    /\ store_pc = "idle"
    /\ IF save_outcome = "returned"
       THEN /\ snapshots_saved' = snapshots_saved + 1
            /\ Return(computed)
            /\ UNCHANGED failure
       ELSE /\ Raise("save")
            /\ UNCHANGED snapshots_saved
    /\ UNCHANGED <<once, storage_on, updates, prints, sleeps, save_calls,
                   iter_now, computed, exit_code>>
    /\ UNCHANGED <<monitor, factory, collector, words, rss, store, analysis>>

\* main() prints the trends; with --once it leaves the loop and returns 0
DriverPrint ==
    /\ driver_pc = "print"
    /\ IF once
       THEN /\ driver_pc' = "exited"
            /\ exit_code' = 0
       ELSE /\ driver_pc' = "sleep"
            /\ UNCHANGED exit_code
    /\ prints' = prints + 1
    /\ UNCHANGED <<once, storage_on, updates, sleeps, save_calls, iter_pc, iter_now,
                   computed, update_result, failure, snapshots_saved>>
    /\ UNCHANGED <<monitor, factory, collector, words, rss, store, analysis>>

\* time.sleep(interval) in iter_trends is over
DriverSleep ==
    /\ driver_pc = "sleep"
    /\ driver_pc' = "loop"
    /\ sleeps' = sleeps + 1
    /\ UNCHANGED <<once, storage_on, updates, prints, save_calls, iter_pc, iter_now,
                   computed, update_result, failure, snapshots_saved, exit_code>>
    /\ UNCHANGED <<monitor, factory, collector, words, rss, store, analysis>>

\* an exception raised from outside (a signal handler, Ctrl+C) reaches the
\* store while save() runs: inside the with block the connection rolls
\* back, after it the commit stays; save() does not return
SaveAbandoned ==
    /\ IF InWith
       THEN /\ rolled_back' = tables
            /\ \E x \in {WithExit(FALSE, tables, committed)} :
                  /\ tables' = x.tables
                  /\ committed' = x.committed
       ELSE UNCHANGED <<tables, committed, rolled_back>>
    /\ IF store_pc # "idle"
       THEN /\ save_outcome' = "raised"
            /\ store_pc' = "idle"
            /\ snapshot_id' = None
            /\ trend_id' = None
            /\ pending_trends' = <<>>
            /\ pending_items' = <<>>
       ELSE UNCHANGED <<save_outcome, store_pc, snapshot_id, trend_id,
                        pending_trends, pending_items>>
    /\ UNCHANGED <<conn_open, store_retention, vacuum_every, save_counter, save_args,
                   vacuumed, before, saves>>

\* the loop of main() is left by an exception from outside: the running
\* update(), if any, is abandoned where it is
LoopLeft ==
    /\ driver_pc \in {"loop", "print", "sleep"}
    /\ iter_pc' = "idle"
    /\ update_result' = IF iter_pc = "idle" THEN update_result ELSE Propagated
    /\ SaveAbandoned
    /\ UNCHANGED <<once, storage_on, updates, prints, sleeps, save_calls,
                   iter_now, computed, failure, snapshots_saved>>
    /\ UNCHANGED <<monitor, factory, collector, words, rss, analysis>>

\* SIGINT or SIGTERM: handle_signal raises SystemExit(0), which nothing in
\* main() catches; the process ends with status 0
DriverSignal ==
    /\ LoopLeft
    /\ driver_pc' = "stopped"
    /\ UNCHANGED exit_code

\* except KeyboardInterrupt: the stop is logged and main() returns 0
DriverCtrlC ==
    /\ LoopLeft
    /\ driver_pc' = "exited"
    /\ exit_code' = 0

NextDriver ==
    \/ \E t \in StoreTimes : IterBegin(t)
    \/ IterGathered
    \/ IterFetchRaises
    \/ \E trends \in StoreTrends : IterAnalysed(trends)
    \/ IterAnalysisRaises
    \/ IterSave
    \/ IterSaved
    \/ SaveSnapshot
    \/ SaveRow
    \/ SaveDelete
    \/ SaveCommit
    \/ SaveCount
    \/ SaveVacuum
    \/ SaveFail
    \/ DriverPrint
    \/ DriverSleep

\* ------------------------------------------------------------- score_trends
\* Floats are fixed-point numbers: a weight w stands for w / One, and a score,
\* which is a sum of products of two weights, for score / (One * One).
One == 10000

\* round(score, 3) for score >= 0: to the nearest thousandth, a tie to the
\* even one
Round3(x) ==
    LET Milli == (One * One) \div 1000
        q == x \div Milli
        r == x % Milli
    IN  IF 2 * r < Milli THEN q * Milli
        ELSE IF 2 * r > Milli THEN (q + 1) * Milli
        ELSE IF q % 2 = 0 THEN q * Milli
        ELSE (q + 1) * Milli

\* An item as score_trends sees it: what extract_keywords returns for its
\* title and for its summary, and its published time in seconds.  The title
\* stands for the remaining fields: dataclass equality compares them.
ScoredItem(title, title_keywords, summary_keywords, published) ==
    [title |-> title, title_keywords |-> title_keywords,
     summary_keywords |-> summary_keywords, published |-> published]

\* math.exp(-age / decay_seconds), to four decimals.  The ages of the model
\* are at most a few seconds and the decay an hour or more, where exp(-x)
\* equals 1 - x to four decimals.
Exp(age, decay_seconds) ==
    One - ((One * age + (decay_seconds \div 2)) \div decay_seconds)

\* decay_seconds = max(decay_hours, 0.0) * 3600
DecaySeconds(hours) == Max(hours, 0) * 3600

\* base_weight of an item
BaseWeight(item, t, hours) ==
    IF DecaySeconds(hours) # 0
    THEN Exp(Max(t - item.published, 0), DecaySeconds(hours))
    ELSE One

\* a weight that is not clamped
Unclamped(w) == w

\* max(title_weight, 0.0), max(summary_weight, 0.0)
Clamp(w) == Max(w, 0)

\* the two dicts of score_trends; order is the insertion order of their keys
NoScores == [order |-> <<>>, weight |-> EmptyMap, items_by |-> EmptyMap]

\* weight_by_keyword[keyword] += amount; append the item if not present
AddKeyword(acc, keyword, item, amount) ==
    LET known == keyword \in DOMAIN acc.weight
        listed == IF known THEN acc.items_by[keyword] ELSE <<>>
    IN  [order |-> IF known THEN acc.order ELSE Append(acc.order, keyword),
         weight |-> Put(acc.weight, keyword,
                        (IF known THEN acc.weight[keyword] ELSE 0) + amount),
         items_by |-> Put(acc.items_by, keyword,
                          IF \E i \in DOMAIN listed : listed[i] = item
                          THEN listed
                          ELSE Append(listed, item))]

\* for keyword in keywords: ...
RECURSIVE AddKeywords(_, _, _, _)
AddKeywords(acc, keywords, item, amount) ==
    IF keywords = <<>> THEN acc
    ELSE AddKeywords(AddKeyword(acc, Head(keywords), item, amount),
                     Tail(keywords), item, amount)

\* the body of the loop over the items
AddItem(acc, item, t, hours, tw, sw) ==
    IF item.title_keywords = <<>> /\ item.summary_keywords = <<>>
    THEN acc
    ELSE LET base == BaseWeight(item, t, hours)
             titled == AddKeywords(acc, item.title_keywords, item, base * Clamp(tw))
         IN  AddKeywords(titled, item.summary_keywords, item, base * Clamp(sw))

\* for item in items: ...
RECURSIVE Accumulate(_, _, _, _, _, _)
Accumulate(acc, its, t, hours, tw, sw) ==
    IF its = <<>> THEN acc
    ELSE Accumulate(AddItem(acc, Head(its), t, hours, tw, sw),
                    Tail(its), t, hours, tw, sw)

\* a sort that puts a key before the keys of equal weight already placed
InsertByWeightFirst(sorted, keyword, weight) ==
    LET ahead == {i \in DOMAIN sorted : weight[sorted[i]] > weight[keyword]}
        n == Cardinality(ahead)
    IN  SubSeq(sorted, 1, n) \o <<keyword>> \o SubSeq(sorted, n + 1, Len(sorted))

\* sorted(..., reverse=True) is stable: a key goes after the keys already
\* placed whose weight is greater or equal
InsertByWeight(sorted, keyword, weight) ==
    LET ahead == {i \in DOMAIN sorted : weight[sorted[i]] >= weight[keyword]}
        n == Cardinality(ahead)
    IN  SubSeq(sorted, 1, n) \o <<keyword>> \o SubSeq(sorted, n + 1, Len(sorted))

\* Counter.most_common(): the keys by descending weight
RECURSIVE MostCommonFrom(_, _, _)
MostCommonFrom(sorted, order, weight) ==
    IF order = <<>> THEN sorted
    ELSE MostCommonFrom(InsertByWeight(sorted, Head(order), weight),
                        Tail(order), weight)

MostCommon(acc) == MostCommonFrom(<<>>, acc.order, acc.weight)

\* the list comprehension that builds the result
Trends(acc) ==
    LET ranked == MostCommon(acc)
    IN  [i \in DOMAIN ranked |->
            Trend(ranked[i], Round3(acc.weight[ranked[i]]), acc.items_by[ranked[i]])]

\* [:k]
Slice(list, k) == SubSeq(list, 1, IF k < Len(list) THEN k ELSE Len(list))

\* a filter that also drops the trends whose score is min_score
FilteredAbove(list, lowest, k) ==
    Slice(SelectSeq(list, LAMBDA trend : trend.score > lowest), k)

\* [trend for trend in trends if trend.score >= self.min_score][: self.top_k]
Filtered(list, lowest, k) ==
    Slice(SelectSeq(list, LAMBDA trend : trend.score >= lowest), k)

\* nothing is being scored
ScoreNew(its, t, hours, tw, sw, lowest, k) ==
    /\ score_pc = "input"
    /\ scored_items = its
    /\ score_now = t
    /\ decay_hours = hours
    /\ title_weight = tw
    /\ summary_weight = sw
    /\ weight_by_keyword = NoScores
    /\ trends_out = <<>>
    /\ min_score = lowest
    /\ top_k = k
    /\ filtered_out = <<>>

\* trends = score_trends(items, now=now, decay_hours=..., title_weight=...,
\*                       summary_weight=...)
Score ==
    /\ score_pc = "input"
    /\ score_pc' = "scored"
    /\ \E acc \in {Accumulate(NoScores, scored_items, score_now, decay_hours,
                              title_weight, summary_weight)} :
        /\ weight_by_keyword' = acc
        /\ trends_out' = Trends(acc)
    /\ UNCHANGED <<scored_items, score_now, decay_hours, title_weight, summary_weight,
                   min_score, top_k, filtered_out, lang_pc, lang_text, lang_out>>
    /\ UNCHANGED <<monitor, factory, collector, words, rss, store, driver>>

\* filtered = [...][: self.top_k]
Filter ==
    /\ score_pc = "scored"
    /\ score_pc' = "filtered"
    /\ filtered_out' = Filtered(trends_out, min_score, top_k)
    /\ UNCHANGED <<scored_items, score_now, decay_hours, title_weight, summary_weight,
                   weight_by_keyword, trends_out, min_score, top_k,
                   lang_pc, lang_text, lang_out>>
    /\ UNCHANGED <<monitor, factory, collector, words, rss, store, driver>>

NextScore == Score \/ Filter

\* ---------------------------------------------------------- detect_language
\* A character is its code point, which is what Python compares in
\* "a" <= lower <= "z".  char.lower() on Basic Latin and on the Cyrillic
\* block: A-Z and the capitals U+0410-U+042F move up by 32, U+0401 (capital
\* yo) goes to U+0451, and every other character of the model is its own
\* lower case.
Lower(c) ==
    IF (c >= 65 /\ c <= 90) \/ (c >= 1040 /\ c <= 1071) THEN c + 32
    ELSE IF c = 1025 THEN 1105
    ELSE c

\* "a" <= lower <= "z"
IsLatin(lower) == lower >= 97 /\ lower <= 122

\* "а" <= lower <= "я" or lower == "ё"
IsCyrillic(lower) == (lower >= 1072 /\ lower <= 1103) \/ lower = 1105

\* a comparison without the factor
DominatesBare(a, b) == a >= b

\* a >= b * 1.2: b * 1.2 is a float, and for the counts a text can reach
\* the float comparison agrees with 5a >= 6b
Dominates(a, b) == 5 * a >= 6 * b

\* detect_language(text)
DetectLanguage(txt) ==
    IF txt = <<>> THEN "other"
    ELSE LET latin == Cardinality({i \in DOMAIN txt : IsLatin(Lower(txt[i]))})
             cyrillic == Cardinality({i \in DOMAIN txt :
                                        /\ ~IsLatin(Lower(txt[i]))
                                        /\ IsCyrillic(Lower(txt[i]))})
         IN  IF cyrillic # 0 /\ Dominates(cyrillic, latin) THEN "ru"
             ELSE IF latin # 0 /\ Dominates(latin, cyrillic) THEN "en"
             ELSE "other"

\* nothing has been detected
LangNew(txt) ==
    /\ lang_pc = "input"
    /\ lang_text = txt
    /\ lang_out = ""

\* language = detect_language(text)
Detect ==
    /\ lang_pc = "input"
    /\ lang_pc' = "detected"
    /\ lang_out' = DetectLanguage(lang_text)
    /\ UNCHANGED <<score_pc, scored_items, score_now, decay_hours, title_weight,
                   summary_weight, weight_by_keyword, trends_out, min_score, top_k,
                   filtered_out, lang_text>>
    /\ UNCHANGED <<monitor, factory, collector, words, rss, store, driver>>

NextLang == Detect

\* ---------------------------------------------------------- extract_keywords
\* Texts and tokens are sequences of code points, as for detect_language.
\* The model writes a Latin word by its letters and a Cyrillic word by the
\* transliteration of its letters.
Letters ==
    <<"a", "b", "c", "d", "e", "f", "g", "h", "i", "j", "k", "l", "m",
      "n", "o", "p", "q", "r", "s", "t", "u", "v", "w", "x", "y", "z">>

\* ord() of a Latin letter, the apostrophe, the hyphen or the space
Ord(ch) ==
    IF ch = " " THEN 32
    ELSE IF ch = "'" THEN 39
    ELSE IF ch = "-" THEN 45
    ELSE 96 + (CHOOSE n \in DOMAIN Letters : Letters[n] = ch)

Chars(word) == [i \in DOMAIN word |-> Ord(word[i])]

\* U+0430 .. U+044F in alphabet order
CyrillicLetters ==
    <<"a", "b", "v", "g", "d", "e", "zh", "z", "i", "j", "k", "l", "m", "n",
      "o", "p", "r", "s", "t", "u", "f", "h", "c", "ch", "sh", "sch", "hard",
      "y", "soft", "eh", "yu", "ya">>

CyrOrd(name) == 1071 + (CHOOSE n \in DOMAIN CyrillicLetters : CyrillicLetters[n] = name)

Cyr(word) == [i \in DOMAIN word |-> CyrOrd(word[i])]

\* str.upper() of a lower-case word of the model's alphabets
Upper(word) == [i \in DOMAIN word |-> word[i] - 32]

\* token.endswith(suffix)
EndsWith(token, suffix) ==
    /\ Len(token) >= Len(suffix)
    /\ SubSeq(token, Len(token) - Len(suffix) + 1, Len(token)) = suffix

\* token[:-n]
DropLast(token, n) == SubSeq(token, 1, Len(token) - n)

\* _EN_SUFFIXES, in tuple order (the tuple names ingly three times)
EN_SUFFIXES ==
    <<Chars(<<"i", "n", "g", "l", "y">>),
      Chars(<<"o", "u", "s", "l", "y">>),
      Chars(<<"a", "t", "i", "o", "n", "s">>),
      Chars(<<"a", "t", "i", "o", "n">>),
      Chars(<<"i", "n", "g", "l", "y">>),
      Chars(<<"i", "n", "g", "l", "y">>),
      Chars(<<"m", "e", "n", "t", "s">>),
      Chars(<<"m", "e", "n", "t">>),
      Chars(<<"i", "n", "g", "s">>),
      Chars(<<"i", "n", "g">>),
      Chars(<<"e", "r", "s">>),
      Chars(<<"e", "r">>),
      Chars(<<"e", "d">>),
      Chars(<<"i", "e", "s">>),
      Chars(<<"s">>)>>

\* _RU_SUFFIXES, in tuple order
RU_SUFFIXES ==
    <<Cyr(<<"i", "ya", "m", "i">>),
      Cyr(<<"ya", "m", "i">>),
      Cyr(<<"a", "m", "i">>),
      Cyr(<<"o", "v">>),
      Cyr(<<"e", "v">>),
      Cyr(<<"y", "h">>),
      Cyr(<<"i", "h">>),
      Cyr(<<"y", "m">>),
      Cyr(<<"i", "m">>),
      Cyr(<<"a", "h">>),
      Cyr(<<"ya", "h">>),
      Cyr(<<"y", "j">>),
      Cyr(<<"i", "j">>),
      Cyr(<<"o", "e">>),
      Cyr(<<"a", "ya">>),
      Cyr(<<"y", "e">>),
      Cyr(<<"i", "e">>),
      Cyr(<<"i", "i">>),
      Cyr(<<"u", "yu">>),
      Cyr(<<"e", "sh", "soft">>),
      Cyr(<<"e", "sh", "soft", "s", "ya">>),
      Cyr(<<"e", "t", "e">>),
      Cyr(<<"e", "t", "e", "s", "ya">>)>>

\* for suffix in suffixes: if token.endswith(suffix) and
\* len(token) - len(suffix) >= 3: token = token[:-len(suffix)]; break
RECURSIVE StripFirstSuffix(_, _, _)
StripFirstSuffix(token, suffixes, i) ==
    IF i > Len(suffixes) THEN token
    ELSE IF EndsWith(token, suffixes[i]) /\ Len(token) - Len(suffixes[i]) >= 3
         THEN DropLast(token, Len(suffixes[i]))
         ELSE StripFirstSuffix(token, suffixes, i + 1)

\* _normalize_en(token): every if of the function is tried in turn, on the
\* token the ones before it left
normalize_en(token) ==
    LET bare == IF EndsWith(token, Chars(<<"'", "s">>)) THEN DropLast(token, 2)
                ELSE IF EndsWith(token, Chars(<<"'">>)) THEN DropLast(token, 1)
                ELSE token
        ies == IF EndsWith(bare, Chars(<<"i", "e", "s">>)) /\ Len(bare) > 4
               THEN DropLast(bare, 3) \o Chars(<<"y">>)
               ELSE bare
        sses == IF EndsWith(ies, Chars(<<"s", "s", "e", "s">>)) /\ Len(ies) > 4
                THEN DropLast(ies, 2)
                ELSE ies
        stem == StripFirstSuffix(sses, EN_SUFFIXES, 1)
    IN  IF Len(stem) > 3 /\ EndsWith(stem, Chars(<<"n", "n">>))
        THEN DropLast(stem, 1)
        ELSE stem

\* str.rstrip(chars) / str.lstrip(chars)
RECURSIVE RStrip(_, _)
RStrip(token, chars) ==
    IF token # <<>> /\ token[Len(token)] \in chars
    THEN RStrip(DropLast(token, 1), chars)
    ELSE token

RECURSIVE LStrip(_, _)
LStrip(token, chars) ==
    IF token # <<>> /\ Head(token) \in chars
    THEN LStrip(Tail(token), chars)
    ELSE token

\* _normalize_ru(token)
normalize_ru(token) ==
    RStrip(StripFirstSuffix(token, RU_SUFFIXES, 1), {CyrOrd("soft"), CyrOrd("j")})

\* _normalize_token(token, language) without a stemmer (snowballstemmer is
\* None): token.strip("-'\""), NFKC - which leaves every character of the
\* model's alphabets as it is - and the rules of the language
normalize_token(token, lang) ==
    LET stripped == RStrip(LStrip(token, {45, 39, 34}), {45, 39, 34})
    IN  IF stripped = <<>> THEN <<>>
        ELSE IF lang = "en" THEN normalize_en(stripped)
        ELSE IF lang = "ru" THEN normalize_ru(stripped)
        ELSE stripped

\* what [\w\-'] matches among the characters of the model: letters, digits,
\* the underscore, the hyphen and the apostrophe
IsWordChar(c) ==
    \/ IsLatin(Lower(c))
    \/ IsCyrillic(Lower(c))
    \/ (c >= 48 /\ c <= 57)
    \/ c \in {95, 45, 39}

\* _WORD_RE.findall(text): the maximal runs of word characters that are at
\* least 3 long, left to right
RECURSIVE FindAll(_, _)
FindAll(txt, run) ==
    IF txt = <<>> THEN (IF Len(run) >= 3 THEN <<run>> ELSE <<>>)
    ELSE IF IsWordChar(Head(txt)) THEN FindAll(Tail(txt), Append(run, Head(txt)))
    ELSE (IF Len(run) >= 3 THEN <<run>> ELSE <<>>) \o FindAll(Tail(txt), <<>>)

\* text.lower()
LowerText(txt) == [i \in DOMAIN txt |-> Lower(txt[i])]

\* _STOPWORDS["en"]
STOPWORDS_EN ==
    {Chars(<<"t", "h", "e">>), Chars(<<"a", "n", "d">>), Chars(<<"f", "o", "r">>),
     Chars(<<"w", "i", "t", "h">>), Chars(<<"f", "r", "o", "m">>),
     Chars(<<"t", "h", "a", "t">>), Chars(<<"t", "h", "i", "s">>),
     Chars(<<"h", "a", "v", "e">>), Chars(<<"y", "o", "u", "r">>),
     Chars(<<"a", "b", "o", "u", "t">>), Chars(<<"i", "n", "t", "o">>),
     Chars(<<"a", "f", "t", "e", "r">>), Chars(<<"w", "i", "l", "l">>),
     Chars(<<"t", "r", "e", "n", "d">>), Chars(<<"n", "e", "w", "s">>)}

\* _STOPWORDS["ru"]
STOPWORDS_RU ==
    {Cyr(<<"eh", "t", "o">>), Cyr(<<"k", "a", "k">>), Cyr(<<"t", "a", "k">>),
     Cyr(<<"o", "n", "a">>), Cyr(<<"o", "n", "i">>), Cyr(<<"i", "l", "i">>),
     Cyr(<<"e", "s", "l", "i">>), Cyr(<<"ch", "t", "o", "b", "y">>),
     Cyr(<<"k", "o", "g", "d", "a">>), Cyr(<<"b", "u", "d", "e", "t">>),
     Cyr(<<"k", "o", "t", "o", "r", "y", "e">>), Cyr(<<"t", "a", "k", "zh", "e">>),
     Cyr(<<"t", "r", "e", "n", "d">>), Cyr(<<"n", "o", "v", "o", "s", "t", "i">>)}

\* _DEFAULT_STOPWORDS
DEFAULT_STOPWORDS ==
    STOPWORDS_EN \cup STOPWORDS_RU
        \cup {Cyr(<<"n", "o", "v", "o", "e">>), Chars(<<"n", "e", "w">>)}

\* _STOPWORDS.get(language, _DEFAULT_STOPWORDS)
Stopwords(lang) ==
    IF lang = "en" THEN STOPWORDS_EN
    ELSE IF lang = "ru" THEN STOPWORDS_RU
    ELSE DEFAULT_STOPWORDS

\* language or detect_language(text): None and "" are falsy
EffectiveLanguage(txt, lang) == IF lang = "" THEN DetectLanguage(txt) ELSE lang

\* [token for token in normalized
\*  if token and token not in stopwords and len(token) > 2]
RECURSIVE KeepKeywords(_, _)
KeepKeywords(normalized, stopwords) ==
    IF normalized = <<>> THEN <<>>
    ELSE LET token == Head(normalized)
             rest == KeepKeywords(Tail(normalized), stopwords)
         IN  IF token # <<>> /\ token \notin stopwords /\ Len(token) > 2
             THEN <<token>> \o rest
             ELSE rest

\* extract_keywords(text, language)
ExtractKeywords(txt, lang) ==
    IF txt = <<>> THEN <<>>
    ELSE LET effective == EffectiveLanguage(txt, lang)
             tokens == FindAll(LowerText(txt), <<>>)
             normalized == [i \in DOMAIN tokens |-> normalize_token(tokens[i], effective)]
         IN  KeepKeywords(normalized, Stopwords(effective))

\* nothing has been normalised
NormNew(token) ==
    /\ norm_pc = "input"
    /\ norm_token = token
    /\ norm_out = <<>>

\* token = _normalize_en(token)
Normalize ==
    /\ norm_pc = "input"
    /\ norm_pc' = "normalized"
    /\ norm_out' = normalize_en(norm_token)
    /\ UNCHANGED <<norm_token, kw_pc, kw_text, kw_language, kw_out>>
    /\ UNCHANGED <<monitor, factory, collector, rss, store, driver, analysis>>

NextNorm == Normalize

\* nothing has been extracted
KeywordsNew(txt, lang) ==
    /\ kw_pc = "input"
    /\ kw_text = txt
    /\ kw_language = lang
    /\ kw_out = <<>>

\* keywords = extract_keywords(text, language)
Extract ==
    /\ kw_pc = "input"
    /\ kw_pc' = "extracted"
    /\ kw_out' = ExtractKeywords(kw_text, kw_language)
    /\ UNCHANGED <<kw_text, kw_language, norm_pc, norm_token, norm_out>>
    /\ UNCHANGED <<monitor, factory, collector, rss, store, driver, analysis>>

NextKeywords == Extract

\* --------------------------------------------------------- MetricsCollector
Threads == {1, 2}

\* the keys of _snapshot
Keys ==
    {"fetch_attempts", "fetch_success", "fetch_not_modified", "fetch_failures",
     "fetch_retries", "new_events", "snapshots_saved"}

Zeroes == [k \in Keys |-> 0]

\* self._inc(key, amount)
IncCall(key, amount) == [op |-> "inc", key |-> key, amount |-> amount]
\* a record_* call that returns before it reaches _inc
NoIncCall == [op |-> "none", key |-> "", amount |-> 0]
\* self.snapshot()
SnapshotCall == [op |-> "snapshot", key |-> "", amount |-> 0]

\* record_fetch_attempt(source)
record_fetch_attempt == IncCall("fetch_attempts", 1)
\* record_fetch_success(source, not_modified)
record_fetch_success(not_modified) ==
    IF not_modified THEN IncCall("fetch_not_modified", 1)
    ELSE IncCall("fetch_success", 1)
\* record_fetch_failure(source)
record_fetch_failure == IncCall("fetch_failures", 1)
\* record_retry(source)
record_retry == IncCall("fetch_retries", 1)
\* record_new_events(count)
record_new_events(count) ==
    IF count <= 0 THEN NoIncCall ELSE IncCall("new_events", count)
\* record_snapshot_saved()
record_snapshot_saved == IncCall("snapshots_saved", 1)

\* the calls a thread of the model can make
CollectorCalls ==
    {record_fetch_attempt, record_fetch_failure, record_retry,
     record_snapshot_saved, SnapshotCall}
        \cup {record_fetch_success(b) : b \in BOOLEAN}
        \cup {record_new_events(n) : n \in 0..2}

\* a lock that lets every thread in
LockFreeAlways(holder) == TRUE

\* threading.Lock.acquire: the lock is free
LockFree(holder) == holder = None

\* MetricsCollector() before any call
CollectorNew ==
    /\ mc_lock = None
    /\ mc_snapshot = Zeroes
    /\ thread_pc = [th \in Threads |-> "idle"]
    /\ thread_call = [th \in Threads |-> NoIncCall]
    /\ thread_read = [th \in Threads |-> 0]
    /\ thread_result = [th \in Threads |-> Zeroes]
    /\ calls_made = 0
    /\ recorded = Zeroes
    /\ applied = Zeroes
    /\ thread_applied = [th \in Threads |-> Zeroes]
    /\ thread_alone = [th \in Threads |-> TRUE]

\* a thread calls a record_* method or snapshot(): it goes for the lock,
\* unless the method returns before _inc (record_new_events with count <= 0)
ThreadCall(th, call) ==
    /\ thread_pc[th] = "idle"
    /\ calls_made < MaxCalls
    /\ calls_made' = calls_made + 1
    /\ thread_call' = [thread_call EXCEPT ![th] = call]
    /\ thread_pc' = [thread_pc EXCEPT ![th] = IF call.op = "none" THEN "idle" ELSE "acquire"]
    /\ UNCHANGED <<mc_lock, mc_snapshot, thread_read, thread_result, recorded,
                   applied, thread_applied, thread_alone>>
    /\ UNCHANGED <<monitor, factory, rss, store, driver, analysis, words>>

\* with self._lock: entered
LockAcquire(th) ==
    /\ thread_pc[th] = "acquire"
    /\ LockFree(mc_lock)
    /\ mc_lock' = th
    /\ thread_pc' = [thread_pc EXCEPT ![th] = "locked"]
    /\ UNCHANGED <<mc_snapshot, thread_call, thread_read, thread_result, calls_made,
                   recorded, applied, thread_applied, thread_alone>>
    /\ UNCHANGED <<monitor, factory, rss, store, driver, analysis, words>>

\* _inc: self._snapshot.get(key, 0.0)
IncRead(th) ==
    /\ thread_pc[th] = "locked"
    /\ thread_call[th].op = "inc"
    /\ thread_read' = [thread_read EXCEPT ![th] = mc_snapshot[thread_call[th].key]]
    /\ thread_pc' = [thread_pc EXCEPT ![th] = "read"]
    /\ UNCHANGED <<mc_lock, mc_snapshot, thread_call, thread_result, calls_made,
                   recorded, applied, thread_applied, thread_alone>>
    /\ UNCHANGED <<monitor, factory, rss, store, driver, analysis, words>>

\* _inc: self._snapshot[key] = ... + amount
IncWrite(th) ==
    /\ thread_pc[th] = "read"
    /\ mc_snapshot' = [mc_snapshot EXCEPT ![thread_call[th].key] =
                           thread_read[th] + thread_call[th].amount]
    /\ applied' = [applied EXCEPT ![thread_call[th].key] = @ + thread_call[th].amount]
    /\ thread_pc' = [thread_pc EXCEPT ![th] = "release"]
    /\ UNCHANGED <<mc_lock, thread_call, thread_read, thread_result, calls_made,
                   recorded, thread_applied, thread_alone>>
    /\ UNCHANGED <<monitor, factory, rss, store, driver, analysis, words>>

\* snapshot: dict(self._snapshot)
SnapshotCopy(th) ==
    /\ thread_pc[th] = "locked"
    /\ thread_call[th].op = "snapshot"
    /\ thread_result' = [thread_result EXCEPT ![th] = mc_snapshot]
    /\ thread_applied' = [thread_applied EXCEPT ![th] = applied]
    /\ thread_alone' = [thread_alone EXCEPT ![th] =
                            \A other \in Threads \ {th} :
                                thread_pc[other] \notin {"locked", "read", "release"}]
    /\ thread_pc' = [thread_pc EXCEPT ![th] = "release"]
    /\ UNCHANGED <<mc_lock, mc_snapshot, thread_call, thread_read, calls_made,
                   recorded, applied>>
    /\ UNCHANGED <<monitor, factory, rss, store, driver, analysis, words>>

\* the with block is left and the call returns
LockRelease(th) ==
    /\ thread_pc[th] = "release"
    /\ mc_lock' = None
    /\ thread_pc' = [thread_pc EXCEPT ![th] = "idle"]
    /\ recorded' = IF thread_call[th].op = "inc"
                   THEN [recorded EXCEPT ![thread_call[th].key] = @ + thread_call[th].amount]
                   ELSE recorded
    /\ UNCHANGED <<mc_snapshot, thread_call, thread_read, thread_result, calls_made,
                   applied, thread_applied, thread_alone>>
    /\ UNCHANGED <<monitor, factory, rss, store, driver, analysis, words>>

NextCollector ==
    \/ \E th \in Threads : \E call \in CollectorCalls : ThreadCall(th, call)
    \/ \E th \in Threads : LockAcquire(th)
    \/ \E th \in Threads : IncRead(th)
    \/ \E th \in Threads : IncWrite(th)
    \/ \E th \in Threads : SnapshotCopy(th)
    \/ \E th \in Threads : LockRelease(th)

\* ----------------------------------------------------------- _build_sources
\* a source object: its class and the configuration it was built from
Adapter(class, config) == [class |-> class, config |-> config]

\* SourceConfig(kind=...): the other fields play no part in the factory
KindConfig(kind) == [kind |-> kind]

\* RSSSource(config)
RSSSource(config) == Adapter("RSSSource", config)

\* _build_sources(configs) is called
BuildNew(configs) ==
    /\ build_pc = "loop"
    /\ build_configs = configs
    /\ build_pending = configs
    /\ build_sources = <<>>

\* for config in configs: sources.append(RSSSource(config))
BuildOne ==
    /\ build_pc = "loop"
    /\ build_pending # <<>>
    /\ build_sources' = Append(build_sources, RSSSource(Head(build_pending)))
    /\ build_pending' = Tail(build_pending)
    /\ UNCHANGED <<build_pc, build_configs>>
    /\ UNCHANGED <<monitor, collector, rss, store, driver, analysis, words>>

\* return sources
BuildReturn ==
    /\ build_pc = "loop"
    /\ build_pending = <<>>
    /\ build_pc' = "returned"
    /\ UNCHANGED <<build_configs, build_pending, build_sources>>
    /\ UNCHANGED <<monitor, collector, rss, store, driver, analysis, words>>

NextFactory == BuildOne \/ BuildReturn

\* ------------------------------------------- the state outside the monitor
\* a store without retention that no one calls, a driver that is not
\* looked at, and no analysis under way
StoreIdle == StoreNew(None, 0)
DriverIdle == DriverNew(FALSE, FALSE)
ScoreIdle == ScoreNew(<<>>, 0, 0, One, One, 0, 0)
LangIdle == LangNew(<<>>)
WordsIdle == NormNew(<<>>) /\ KeywordsNew(<<>>, "")
FactoryIdle == BuildNew(<<>>)

Elsewhere0 ==
    /\ RssNew
    /\ StoreIdle
    /\ DriverIdle
    /\ ScoreIdle
    /\ LangIdle
    /\ WordsIdle
    /\ CollectorNew
    /\ FactoryIdle

\* a monitor without sources, for the specifications of the other parts
MonitorIdle == Construct(<<>>, <<>>, 1, None, 1, 0, 1)

\* ----------------------------------------------------------- specifications
BufferSources == <<SourceConfig(2, 1)>>
BufferFeeds == <<"full">>
\* <<retention, dedup_ttl argument>>: a TTL longer and a TTL shorter than
\* the retention window
BufferWindows == {<<1, 2>>, <<2, 1>>}

Init ==
    \E w \in BufferWindows :
        /\ Construct(BufferSources, BufferFeeds, w[1], w[2], 1, 0, 1)
        /\ Elsewhere0

Spec == Init /\ [][Next]_vars

\* The fetch phase: source lists with and without a config, with budgets of
\* one, two and three attempts, with and without a backoff, under one and two
\* permits; the third setup has no window at all (retention 0, TTL unset), the
\* last one a backoff of 2 seconds over three attempts.
Setup(srcs, fds, window, retry_arg, backoff_arg, conc_arg) ==
    [srcs |-> srcs, fds |-> fds, window |-> window, retry_arg |-> retry_arg,
     backoff_arg |-> backoff_arg, conc_arg |-> conc_arg]

FetchSetups ==
    { Setup(<<SourceConfig(0, 0), NoConfig>>, <<"pair", "twin">>, <<1, None>>, 2, 1, 0),
      Setup(<<SourceConfig(2, 2), SourceConfig(1, 0), SourceConfig(2, 0)>>,
            <<"none", "one", "none">>, <<1, None>>, 0, 0, 2),
      Setup(<<SourceConfig(1, 0), SourceConfig(1, 0)>>, <<"pair", "twin">>,
            <<0, None>>, 1, 0, 2),
      Setup(<<SourceConfig(3, 2)>>, <<"one">>, <<1, None>>, 1, 0, 1) }

InitFetch ==
    \E c \in FetchSetups :
        /\ Construct(c.srcs, c.fds, c.window[1], c.window[2],
                     c.retry_arg, c.backoff_arg, c.conc_arg)
        /\ Elsewhere0

SpecFetch == InitFetch /\ [][NextFetch]_vars

\* Whole updates of a monitor constructed with a dedup_ttl of 0, over a
\* retention of 2, of 1 and of 0, and with a TTL of 1 for comparison; its two
\* sources can return the same item in one update.
TtlWindows == {<<2, 0>>, <<1, 0>>, <<0, 0>>, <<2, 1>>}

InitTtl ==
    \E w \in TtlWindows :
        /\ Construct(<<SourceConfig(1, 0), SourceConfig(1, 0)>>, <<"one", "pair">>,
                     w[1], w[2], 1, 0, 1)
        /\ Elsewhere0

SpecTtl == InitTtl /\ [][Next]_vars

\* The event loop runs every task that can run: a task at the top of its
\* loop, a task queued on a free permit and a task whose sleep is over go
\* on, gather() returns when every task is done, and every fetch() call comes
\* back, with a result or with SourceError.
MaxSources == 3
FetchReturns(s) == FetchRaise(s) \/ \E result \in Returns(s) : FetchReturn(s, result)
FairFetch ==
    /\ \A s \in 1..MaxSources :
          /\ WF_vars(s \in Src /\ BeginAttempt(s))
          /\ WF_vars(s \in Src /\ Acquire(s))
          /\ WF_vars(s \in Src /\ FetchReturns(s))
          /\ WF_vars(s \in Src /\ Wake(s))
    /\ WF_vars(Ingest)

\* Termination is explored with sources that return no items, so that the
\* buffer stays empty: one permit (from an argument of 0 and of -1) shared by
\* two sources, two permits for three sources, five permits for one.
FairSetups ==
    { Setup(<<SourceConfig(2, 1), NoConfig>>, <<"none", "none">>, <<1, None>>, 2, 0, 0),
      Setup(<<SourceConfig(1, 0), SourceConfig(2, 0)>>, <<"none", "none">>,
            <<1, None>>, 1, 0, 0 - 1),
      Setup(<<SourceConfig(3, 2), SourceConfig(1, 0), SourceConfig(2, 0)>>,
            <<"none", "none", "none">>, <<1, None>>, 1, 0, 2),
      Setup(<<SourceConfig(2, 1)>>, <<"none">>, <<1, None>>, 1, 0, 5) }

InitFetchFair ==
    \E c \in FairSetups :
        /\ Construct(c.srcs, c.fds, c.window[1], c.window[2],
                     c.retry_arg, c.backoff_arg, c.conc_arg)
        /\ Elsewhere0

SpecFetchFair == InitFetchFair /\ [][NextFetch]_vars /\ FairFetch

\* One RSS source and one video source, called over and over; every call can
\* meet every response.
InitRss == MonitorIdle /\ Elsewhere0

SpecRss == InitRss /\ [][NextRss]_vars

\* A store on a new file, without retention, with a retention of two
\* seconds and with one of half a second; it never compacts, compacts after
\* every save or after every second save.
StoreRetentions == {None, 4, 1}
StoreVacuums == {0, 1, 2}

InitStore ==
    /\ MonitorIdle
    /\ FactoryIdle
    /\ CollectorNew
    /\ WordsIdle
    /\ RssNew
    /\ \E r \in StoreRetentions : \E every \in StoreVacuums : StoreNew(r, every)
    /\ DriverIdle
    /\ ScoreIdle
    /\ LangIdle

SpecStore == InitStore /\ [][NextStore]_vars

\* main() with and without --once, around a monitor with and without a
\* storage; the storage is the store above with a retention of two seconds.
InitDriver ==
    /\ MonitorIdle
    /\ FactoryIdle
    /\ CollectorNew
    /\ WordsIdle
    /\ RssNew
    /\ StoreNew(4, 2)
    /\ \E once_arg \in BOOLEAN : \E storage_arg \in BOOLEAN :
          DriverNew(once_arg, storage_arg)
    /\ ScoreIdle
    /\ LangIdle

SpecDriver == InitDriver /\ [][NextDriver]_vars

\* main() with the ways out of its loop that come from outside
NextShutdown ==
    \/ NextDriver
    \/ DriverSignal
    \/ DriverCtrlC

SpecShutdown == InitDriver /\ [][NextShutdown]_vars

\* score_trends and the filter of update_async on every list of up to
\* MaxItems items of the pool: a fresh item, an item one second old, an item
\* with a keyword twice, an item without keywords and an item from the
\* future; now is second 1.
ScoredPool ==
    { ScoredItem("f", <<"run">>, <<>>, 1),
      ScoredItem("a", <<"cat">>, <<"run">>, 0),
      ScoredItem("d", <<"cat", "cat">>, <<"run">>, 1),
      ScoredItem("b", <<>>, <<>>, 1),
      ScoredItem("x", <<"dog">>, <<"cat">>, 2) }

ScoredLists ==
    UNION {[1..n -> ScoredPool] : n \in 0..MaxItems}

\* <<title_weight, summary_weight>>: the defaults, a third with a weight
\* just above one, and a negative weight
WeightPairs == {<<One, 6000>>, <<3333, 10004>>, <<0 - One, 6000>>}

InitScore ==
    /\ MonitorIdle
    /\ FactoryIdle
    /\ CollectorNew
    /\ WordsIdle
    /\ RssNew
    /\ StoreIdle
    /\ DriverIdle
    /\ LangIdle
    /\ \E its \in ScoredLists : \E hours \in {0, 1} : \E w \in WeightPairs :
       \E lowest \in {0, One * One} : \E k \in 0..2 :
          ScoreNew(its, 1, hours, w[1], w[2], lowest, k)

SpecScore == InitScore /\ [][NextScore]_vars

\* detect_language on texts made of a run of one Latin letter, a run of one
\* Cyrillic letter and a run of another character: a, Z; U+044F, U+0410,
\* U+0451, U+0401; a digit, a space, the characters next to a-z (` and {),
\* and the Cyrillic letters U+0450 and U+0456, which lie outside the range.
LangTexts ==
    LET Run(c, n) == [i \in 1..n |-> c]
    IN  {Run(l, nl) \o Run(c, nc) \o Run(o, no) :
            l \in {97, 90}, c \in {1103, 1040, 1105, 1025},
            o \in {49, 32, 96, 123, 1104, 1110},
            nl \in 0..MaxRun, nc \in 0..MaxRun, no \in 0..1}

InitLang ==
    /\ MonitorIdle
    /\ FactoryIdle
    /\ CollectorNew
    /\ WordsIdle
    /\ RssNew
    /\ StoreIdle
    /\ DriverIdle
    /\ ScoreIdle
    /\ \E txt \in LangTexts : LangNew(txt)

SpecLang == InitLang /\ [][NextLang]_vars

\* _normalize_en on every stem of the pool followed by every ending: the
\* forms of the test (running, runner's, cats, stories), words in sses and
\* ies of every length, stems too short to lose a suffix, and endings that
\* are no suffix at all.
NormStems ==
    {Chars(<<>>), Chars(<<"a">>), Chars(<<"c", "a", "t">>),
     Chars(<<"r", "u", "n", "n">>), Chars(<<"c", "l", "a">>),
     Chars(<<"s", "t", "o", "r">>), Chars(<<"p", "r", "o", "c", "e">>),
     Chars(<<"w", "i", "l", "l">>)}

NormEndings ==
    {Chars(<<>>), Chars(<<"s">>), Chars(<<"'", "s">>), Chars(<<"'">>),
     Chars(<<"s", "'">>), Chars(<<"i", "e", "s">>), Chars(<<"s", "s", "e", "s">>),
     Chars(<<"s", "s">>), Chars(<<"i", "n", "g">>), Chars(<<"i", "n", "g", "s">>),
     Chars(<<"e", "r">>), Chars(<<"e", "r", "'", "s">>), Chars(<<"e", "d">>),
     Chars(<<"i", "n", "g", "l", "y">>), Chars(<<"i", "n", "g", "l", "i", "e", "s">>),
     Chars(<<"n", "n">>), Chars(<<"y">>)}

NormTokens == {stem \o ending : stem \in NormStems, ending \in NormEndings}

InitNorm ==
    /\ MonitorIdle
    /\ FactoryIdle
    /\ CollectorNew
    /\ RssNew
    /\ StoreIdle
    /\ DriverIdle
    /\ ScoreIdle
    /\ LangIdle
    /\ KeywordsNew(<<>>, "")
    /\ \E token \in NormTokens : NormNew(token)

SpecNorm == InitNorm /\ [][NextNorm]_vars

\* extract_keywords on every text of up to two words of the pool, separated
\* and surrounded as a text can be, under every language argument: stopwords
\* of either language and of the default set, words that are no stopwords,
\* words in capitals, words shorter than three characters and words that
\* are nothing but hyphens and apostrophes.
KeywordWords ==
    {Chars(<<"t", "h", "e">>), Chars(<<"t", "h", "i", "s">>),
     Upper(Chars(<<"a", "f", "t", "e", "r">>)), Chars(<<"n", "e", "w", "s">>),
     Chars(<<"n", "e", "w">>), Chars(<<"c", "a", "t", "s">>),
     Chars(<<"-", "-", "-">>), Chars(<<"-", "a", "b", "'">>),
     Chars(<<"i", "t">>),
     Cyr(<<"eh", "t", "o">>), Cyr(<<"k", "o", "t", "o", "r", "y", "e">>),
     Cyr(<<"n", "o", "v", "o", "s", "t", "i">>), Cyr(<<"n", "o", "v", "o", "e">>),
     Upper(Cyr(<<"t", "e", "h", "n", "o", "l", "o", "g", "i", "i">>))}

KeywordTexts ==
    {<<>>} \cup KeywordWords
        \cup {a \o Chars(<<" ">>) \o b : a \in KeywordWords, b \in KeywordWords}

KeywordLanguages == {"", "en", "ru", "other"}

InitKeywords ==
    /\ MonitorIdle
    /\ FactoryIdle
    /\ CollectorNew
    /\ RssNew
    /\ StoreIdle
    /\ DriverIdle
    /\ ScoreIdle
    /\ LangIdle
    /\ NormNew(<<>>)
    /\ \E txt \in KeywordTexts : \E lang \in KeywordLanguages : KeywordsNew(txt, lang)

SpecKeywords == InitKeywords /\ [][NextKeywords]_vars

\* Two threads that share one MetricsCollector and make up to MaxCalls
\* calls on it, in every interleaving of their steps.
InitCollector ==
    /\ MonitorIdle
    /\ FactoryIdle
    /\ RssNew
    /\ StoreIdle
    /\ DriverIdle
    /\ ScoreIdle
    /\ LangIdle
    /\ WordsIdle
    /\ CollectorNew

SpecCollector == InitCollector /\ [][NextCollector]_vars

\* _build_sources on every list of up to MaxConfigs configurations whose
\* kind is rss, video or one the program does not know.
ConfigKinds == {"rss", "video", "podcast"}

ConfigLists == UNION {[1..n -> {KindConfig(k) : k \in ConfigKinds}] : n \in 0..MaxConfigs}

InitFactory ==
    /\ MonitorIdle
    /\ CollectorNew
    /\ RssNew
    /\ StoreIdle
    /\ DriverIdle
    /\ ScoreIdle
    /\ LangIdle
    /\ WordsIdle
    /\ \E configs \in ConfigLists : BuildNew(configs)

SpecFactory == InitFactory /\ [][NextFactory]_vars

\* ================================================================== claims
SeqToSet(q) == {q[i] : i \in DOMAIN q}

\* the items carried by a sequence of events
Items(evs) == {evs[i].item : i \in DOMAIN evs}

\* -------------------------------------------------------------------- C1
\* C1 as stated: for every id, while less than dedup_ttl has elapsed since
\* the first admission of an item with that id, exactly one event was ever
\* appended for it, however often the sources returned it.
DedupIdempotenceAnyId ==
    \A id \in Ids :
        (first_admit[id] # None /\ now < first_admit[id] + dedup_ttl)
            => admissions[id] = 1

\* C1 amended: the same holds for a non-empty id as long as no event
\* carrying that id has been pruned from the buffer: exactly one event was
\* ever appended for it, it is still the only one in the buffer, and every
\* update counts in new_events exactly the events it appended.
DedupIdempotence ==
    /\ new_events = Len(admitted)
    /\ \A id \in Ids \ {<<>>} :
        (/\ first_admit[id] # None
         /\ now < first_admit[id] + dedup_ttl
         /\ id \notin pruned_ids)
            => /\ admissions[id] = 1
               /\ Cardinality(WithId(events, id)) = 1
               /\ Cardinality(WithId(admitted, id)) <= 1

\* an id admitted by an earlier update is returned again inside the TTL by
\* the last update, which passed it over
DedupIdempotenceWitness ==
    \E id \in Ids \ {<<>>} :
        /\ first_admit[id] # None
        /\ first_admit[id] < now
        /\ now < first_admit[id] + dedup_ttl
        /\ id \notin pruned_ids
        /\ admissions[id] = 1
        /\ \E it \in skipped : it.id = id

\* -------------------------------------------------------------------- C2
\* C2 as stated: after every completed update that captured now, the buffer
\* holds no event whose item.published < now - retention.
RetentionHolds ==
    \A i \in DOMAIN events : ~(events[i].item.published < now - retention)

\* -------------------------------------------------------------------- C3
\* C3 as stated: two events of the buffer differ in item.id or in
\* fingerprint, unless the dedup entries of the earlier one (expiry = its
\* seen_at + dedup_ttl) had expired when the later one was admitted.
BufferUnique ==
    \A i, j \in DOMAIN events :
        (/\ i < j
         /\ events[i].item.id = events[j].item.id
         /\ events[i].fingerprint = events[j].fingerprint)
            => events[i].seen_at + dedup_ttl <= events[j].seen_at

\* -------------------------------------------------------------------- C4
\* event i is the latest admission of its item that the buffer holds
LastOf(evs, i) == \A j \in DOMAIN evs : j > i => evs[j].item # evs[i].item

\* the events of evs, other than admissions of item it, that share its
\* non-empty id or its fingerprint and are less than dedup_ttl old at t
Blockers(evs, it, t) ==
    {j \in DOMAIN evs :
        /\ evs[j].item # it
        /\ \/ it.id # <<>> /\ evs[j].item.id = it.id
           \/ evs[j].fingerprint = Fingerprint(it)
        /\ t < evs[j].seen_at + dedup_ttl}

\* the admission of item it by the step, with entries that expire at
\* now + dedup_ttl wherever the step leaves an entry for it
AdmittedAgain(it) ==
    /\ \E k \in DOMAIN admitted' :
          admitted'[k].item = it /\ admitted'[k].seen_at = now'
    /\ it.id \in DOMAIN seen_by_id' => seen_by_id'[it.id] = now' + dedup_ttl
    /\ Fingerprint(it) \in DOMAIN seen_by_fp' =>
          seen_by_fp'[Fingerprint(it)] = now' + dedup_ttl

\* C4 as stated: an item admitted at t (and not since) is admitted again by
\* the first later update that returns it at t' >= t + dedup_ttl, and its
\* new dedup entries expire at t' + dedup_ttl.
ReadmittedAfterTtlAlways ==
    [][\A i \in DOMAIN events :
          (/\ LastOf(events, i)
           /\ events[i].item \in Items(admitted') \cup skipped'
           /\ now' >= events[i].seen_at + dedup_ttl)
              => AdmittedAgain(events[i].item)]_vars

\* C4 amended: it is admitted again provided no admission of another item
\* with the same non-empty id or the same fingerprint is less than
\* dedup_ttl old at t', in the buffer or earlier in the same update; an
\* entry whose expiry equals now does not block, and the entries the update
\* leaves for the item expire at t' + dedup_ttl.
ReadmittedAfterTtl ==
    [][\A i \in DOMAIN events :
          (/\ LastOf(events, i)
           /\ events[i].item \in Items(admitted') \cup skipped'
           /\ now' >= events[i].seen_at + dedup_ttl
           /\ Blockers(events, events[i].item, now') = {}
           /\ Blockers(admitted', events[i].item, now') = {})
              => AdmittedAgain(events[i].item)]_vars

\* an item sits in the buffer twice, the second admission exactly dedup_ttl
\* after the first and made by the last update, its entries renewed
ReadmittedAfterTtlWitness ==
    \E i, j \in DOMAIN events :
        /\ i < j
        /\ events[i].item = events[j].item
        /\ events[j].seen_at = events[i].seen_at + dedup_ttl
        /\ events[j] \in SeqToSet(admitted)
        /\ events[j].item.id \in DOMAIN seen_by_id
        /\ seen_by_id[events[j].item.id] = now + dedup_ttl
        /\ events[j].fingerprint \in DOMAIN seen_by_fp
        /\ seen_by_fp[events[j].fingerprint] = now + dedup_ttl

\* -------------------------------------------------------------------- C5
\* no entry of the map has expired at t
Swept(m, t) == \A k \in DOMAIN m : m[k] > t

\* C5: after every completed update neither map holds an entry with
\* expiry <= now; a sweep at any later time t leaves no entry with
\* expiry <= t, and leaves both maps empty once t is past seen_at +
\* dedup_ttl of every event.
DedupSweep ==
    /\ Swept(seen_by_id, now)
    /\ Swept(seen_by_fp, now)
    /\ \A t \in now..(now + dedup_ttl) :
        /\ Swept(CleanupSeen(seen_by_id, t), t)
        /\ Swept(CleanupSeen(seen_by_fp, t), t)
        /\ (\A i \in DOMAIN events : events[i].seen_at + dedup_ttl <= t)
              => /\ DOMAIN CleanupSeen(seen_by_id, t) = {}
                 /\ DOMAIN CleanupSeen(seen_by_fp, t) = {}

\* nothing was ever pruned, an event is still in the buffer, and the
\* entries of its admission, which expired exactly now, are gone
DedupSweepWitness ==
    /\ pruned_ids = {}
    /\ \E i \in DOMAIN events :
        /\ events[i].item.id # <<>>
        /\ events[i].seen_at + dedup_ttl = now
        /\ events[i].item.id \notin DOMAIN seen_by_id
        /\ events[i].fingerprint \notin DOMAIN seen_by_fp

\* ------------------------------------------------------- claims: fetching
\* the attempts of fetch_source for source s, written out from its config
Budget(s) ==
    IF sources[s].has_config
    THEN (IF sources[s].max_retries >= 1 THEN sources[s].max_retries ELSE 1)
    ELSE fetch_retry_attempts

\* the step is the return of update(): gather() is over, the buffer updated
Returning == phase = "fetch" /\ phase' = "idle"

\* every item of the result of source s went through the admission loop of
\* the returning update: appended, or passed over as seen
IngestedFrom(s) ==
    \A i \in DOMAIN fetch_results[s] :
        fetch_results[s][i] \in Items(admitted') \cup skipped'

\* -------------------------------------------------------------------- C6
\* C6: a source whose fetch() raised SourceError k-1 times and then returned
\* a result has been called exactly k times, k <= attempts, with one
\* record_fetch_success (counted as not-modified for a not-modified result)
\* and no failure; once its task is done no further attempt is made in that
\* update; and its items go through the admission loop.
RetrySuccess ==
    [][\A s \in Src :
          /\ (pc'[s] = "done" /\ outcome'[s] \in {"ok", "not_modified"})
                => /\ calls'[s] = raised'[s] + 1
                   /\ calls'[s] <= Budget(s)
                   /\ m_attempts'[s] = calls'[s]
                   /\ m_success'[s] + m_not_modified'[s] = 1
                   /\ m_success'[s] = (IF outcome'[s] = "ok" THEN 1 ELSE 0)
                   /\ m_failures'[s] = 0
          /\ (phase = "fetch" /\ pc[s] = "done" /\ phase' = "fetch")
                => /\ pc'[s] = "done"
                   /\ calls'[s] = calls[s]
                   /\ m_attempts'[s] = m_attempts[s]
                   /\ outcome'[s] = outcome[s]
                   /\ fetch_results'[s] = fetch_results[s]
          /\ (Returning /\ outcome[s] \in {"ok", "not_modified"})
                => IngestedFrom(s)]_vars

\* an update has returned in which a source failed once, then returned
\* items on its second call, and an event of that source was appended
RetrySuccessWitness ==
    /\ phase = "idle"
    /\ \E s \in Src :
        /\ raised[s] = 1
        /\ calls[s] = 2
        /\ m_success[s] = 1
        /\ m_failures[s] = 0
        /\ \E k \in DOMAIN admitted : admitted[k].source = s

\* -------------------------------------------------------------------- C7
\* source s gave up in the running or in the last update
GaveUp(s) == outcome[s] = "failed" \/ s \in failed_sources

IsSuffix(q, p) ==
    /\ Len(q) <= Len(p)
    /\ q = SubSeq(p, Len(p) - Len(q) + 1, Len(p))

RECURSIVE TotalItems(_, _)
TotalItems(results, n) ==
    IF n = 0 THEN 0 ELSE Len(results[n]) + TotalItems(results, n - 1)

\* gather() is over and at least one source gave up
GatheredWithFailure ==
    /\ phase = "fetch"
    /\ \A s \in Src : pc[s] = "done"
    /\ \E s \in Src : outcome[s] = "failed"

\* C8: when a source raised SourceError on all of its attempts, update()
\* still returns; exactly one failure and no success is recorded for that
\* source, no event of it is appended, and the items of every other source
\* go through the admission loop.  When every source failed, nothing is
\* appended and the update returns the items left in the existing buffer.
FailureIsolated ==
    /\ [](GatheredWithFailure /\ Len(events) + TotalItems(fetch_results, Len(sources)) <= MaxEvents
             => ENABLED Ingest)
    /\ [][Returning =>
            /\ \A s \in Src :
                  IF outcome[s] = "failed"
                  THEN /\ s \in failed_sources'
                       /\ m_failures'[s] = 1
                       /\ m_success'[s] = 0
                       /\ m_not_modified'[s] = 0
                       /\ fetch_results[s] = <<>>
                       /\ \A k \in DOMAIN admitted' : admitted'[k].source # s
                  ELSE /\ m_failures'[s] = 0
                       /\ IngestedFrom(s)
            /\ (\A s \in Src : outcome[s] = "failed")
                  => /\ admitted' = <<>>
                     /\ new_events' = 0
                     /\ IsSuffix(events', events)
                     /\ live_items' = [i \in DOMAIN events' |-> events'[i].item]]_vars

\* an update has returned in which one source gave up and an event of
\* another source was appended
FailureIsolatedWitness ==
    /\ phase = "idle"
    /\ failed_sources # {}
    /\ \A s \in failed_sources : m_failures[s] = 1
    /\ \E k \in DOMAIN admitted : admitted[k].source \notin failed_sources

\* -------------------------------------------------------------------- C9
\* the source.fetch() calls in progress
InProgress == {s \in Src : pc[s] = "fetching"}

\* C9: at every moment the number of source.fetch() calls in progress is at
\* most fetch_concurrency; the free permits and the calls in progress add up
\* to fetch_concurrency.
BoundedFanOut ==
    /\ Cardinality(InProgress) <= fetch_concurrency
    /\ semaphore = fetch_concurrency - Cardinality(InProgress)

\* three sources under two permits: two calls in progress, the third task
\* queued on the semaphore
BoundedFanOutWitness ==
    /\ Len(sources) > fetch_concurrency
    /\ Cardinality(InProgress) = fetch_concurrency
    /\ \E s \in Src : pc[s] = "waiting"

\* ------------------------------------------------------------------- C10
RECURSIVE IsSubseq(_, _)
IsSubseq(a, b) ==
    IF a = <<>> THEN TRUE
    ELSE IF b = <<>> THEN FALSE
    ELSE IF Head(a) = Head(b) THEN IsSubseq(Tail(a), Tail(b))
    ELSE IsSubseq(a, Tail(b))

\* the <<source, item>> pairs of the results of sources s.., in source-list
\* order and, within a source, in response order
RECURSIVE Flat(_, _)
Flat(results, s) ==
    IF s > Len(sources) THEN <<>>
    ELSE [i \in 1..Len(results[s]) |-> <<s, results[s][i]>>] \o Flat(results, s + 1)

\* the events appended by the returning update follow source-list order and
\* response order, carry its time, and sit at the back of the buffer
AppendedInOrder ==
    /\ IsSubseq([k \in DOMAIN admitted' |-> <<admitted'[k].source, admitted'[k].item>>],
                Flat(fetch_results, 1))
    /\ \A k \in DOMAIN admitted' : admitted'[k].seen_at = now
    /\ IsSuffix(events', events \o admitted')

\* seen_at is non-decreasing along the buffer
OrderedBySeenAt(evs) ==
    \A i, j \in DOMAIN evs : i < j => evs[i].seen_at <= evs[j].seen_at

\* C10 as stated: the events of one update are appended in source-list
\* order then response order, whatever the order of completion; no two of
\* them share an id or a fingerprint; seen_at is non-decreasing along the
\* buffer.
AdmissionOrderNoRepeat ==
    [][/\ Returning => AppendedInOrder
       /\ \A i, j \in DOMAIN admitted' :
             i < j => /\ admitted'[i].item.id # admitted'[j].item.id
                      /\ admitted'[i].fingerprint # admitted'[j].fingerprint
       /\ OrderedBySeenAt(events')]_vars

\* C10 amended: the order and the monotonic seen_at hold as stated; no two
\* events appended by one update share a non-empty id or a fingerprint,
\* provided the effective dedup_ttl is positive.
AdmissionOrder ==
    [][/\ Returning => AppendedInOrder
       /\ dedup_ttl > 0 =>
             \A i, j \in DOMAIN admitted' :
                i < j => /\ admitted'[i].item.id # <<>>
                             => admitted'[i].item.id # admitted'[j].item.id
                         /\ admitted'[i].fingerprint # admitted'[j].fingerprint
       /\ OrderedBySeenAt(events')]_vars

\* the second source completed first, yet the event of the first source
\* precedes its events; an item repeated in the iteration was passed over
AdmissionOrderWitness ==
    /\ phase = "idle"
    /\ dedup_ttl > 0
    /\ Len(finished) = 2
    /\ finished[1] = 2
    /\ Len(admitted) >= 2
    /\ admitted[1].source = 1
    /\ admitted[Len(admitted)].source = 2
    /\ \E it \in skipped : \E k \in DOMAIN admitted : admitted[k].item.id = it.id

\* ---------------------------------------------------- claims: the adapters
\* the request in flight carries no conditional header
Unconditional == request_headers = RequestHeaders(Absent, Absent)

\* ------------------------------------------------------------------- C11
\* C11: Conditional request.  While a request of fetch() is in flight: if
\* the previous fetch() received a 2xx response carrying ETag E, the request
\* has If-None-Match: E; if that response carried Last-Modified M, the
\* request has If-Modified-Since: M; and if no fetch() has received a 2xx
\* response yet, the request has no conditional header.
ConditionalRequest ==
    rss_pc = "requesting" =>
        /\ (Is2xx(last_response.status) /\ last_response.etag # Absent)
               => request_headers.if_none_match = last_response.etag
        /\ (Is2xx(last_response.status) /\ last_response.last_modified # Absent)
               => request_headers.if_modified_since = last_response.last_modified
        /\ ~seen_2xx => Unconditional

\* ------------------------------------------------------------------- C12
\* C12: Not-modified path.  A 304 response makes fetch() return
\* FetchResult(items=[], not_modified=true) and leaves _last_etag and
\* _last_modified as they were; and whatever FetchResult an adapter or the
\* give-up path of fetch_source produced, not_modified implies that its
\* items are empty.
NotModifiedPath ==
    /\ [](produced.not_modified => produced.items = <<>>)
    /\ [][(rss_pc = "requesting" /\ rss_pc' = "idle" /\ last_response'.status = 304)
            => /\ produced' = Returned(FetchResult(<<>>, TRUE))
               /\ UNCHANGED <<last_etag, last_modified>>]_vars

\* a 304 arrived at a source that holds validators, and carried other ones
NotModifiedPathWitness ==
    /\ rss_pc = "idle"
    /\ last_response.status = 304
    /\ produced = Returned(FetchResult(<<>>, TRUE))
    /\ last_etag = <<"x">>
    /\ last_response.etag = <<"y">>
    /\ last_modified = <<"m">>
    /\ last_response.last_modified = Absent

\* ------------------------------------------------------- claims: the store
\* the last save() returned
SaveReturned == store_pc = "idle" /\ save_outcome = "returned"

\* the snapshot row the last save() inserted
InsertedPresent ==
    \E sn \in committed.snapshots :
        /\ sn.id = committed.seq.snapshots
        /\ sn.generated_at = Stored(save_args.generated_at)

\* saves at t0, t0 + 30 min and t0 + 2 h under a retention of 1 h, scaled to
\* t0, t0 + 1 s and t0 + 4 s under a retention of 2 s
ThreeSaves == saves = <<0, 2, 8>> /\ store_retention = 4

OnlyLastRemains ==
    /\ Cardinality(committed.snapshots) = 1
    /\ \A sn \in committed.snapshots : sn.generated_at = 8

\* ------------------------------------------------------------------- C13
\* C13 as stated: after a successful save(trends, g) on a store with
\* retention r, the store holds no snapshot with generated_at < g - r, and
\* the snapshot inserted by that save is present; for saves at t0, t0+30min,
\* t0+2h with r = 1h exactly the t0+2h snapshot remains.
SnapshotRetentionExact ==
    (SaveReturned /\ store_retention # None) =>
        /\ \A sn \in committed.snapshots :
               ~(sn.generated_at < save_args.generated_at - store_retention)
        /\ InsertedPresent
        /\ ThreeSaves => OnlyLastRemains

\* C13, amended: after a successful save(trends, g) on a store with
\* retention r, the store holds no snapshot whose generated_at is earlier
\* than g - r cut to whole seconds, and the snapshot inserted by that save is
\* present; for the three saves of the test exactly the last snapshot
\* remains.
SnapshotRetention ==
    (SaveReturned /\ store_retention # None) =>
        /\ \A sn \in committed.snapshots :
               ~(sn.generated_at < Truncate(save_args.generated_at - store_retention))
        /\ InsertedPresent
        /\ ThreeSaves => OnlyLastRemains

\* the third save of the test has returned
SnapshotRetentionWitness ==
    /\ SaveReturned
    /\ ThreeSaves
    /\ OnlyLastRemains
    /\ InsertedPresent
    /\ committed.seq.snapshots = 3

\* save() is inside its with block
InBlock == store_pc \in {"snapshot", "rows", "delete", "exit"}

\* ------------------------------------------------------------------- C14
\* C14: Atomic save.  While a save() runs the committed tables are what they
\* were when it was called, and when it fails - at the snapshot insert, at a
\* trend or item insert, at the retention delete or at the commit - they
\* still are: no row of the new snapshot is visible and no retention
\* deletion has been applied.
AtomicSave ==
    /\ [](InBlock => committed = before)
    /\ [][(store_pc # "idle" /\ store_pc' = "idle" /\ save_outcome' = "raised")
            => (committed' = before /\ tables' = before)]_vars

\* a save() failed after it had inserted a snapshot with a trend and an item
\* and had deleted an older snapshot, and all of that is undone
AtomicSaveWitness ==
    /\ store_pc = "idle"
    /\ save_outcome = "raised"
    /\ committed = before
    /\ rolled_back.trend_items # committed.trend_items
    /\ \E sn \in committed.snapshots : sn \notin rolled_back.snapshots
    /\ \E sn \in rolled_back.snapshots : sn \notin committed.snapshots

\* ------------------------------------------------------ claims: the driver
\* ------------------------------------------------------------------- C15
\* C15: Storage failure in an iteration.  When storage.save() raised during
\* an update(), that update() has returned the trends it computed, the
\* snapshots_saved counter has not counted the save and no snapshot row of
\* it is persisted.
StorageFailureContained ==
    (iter_pc = "idle" /\ failure = "save") =>
        /\ update_result = ReturnedList(computed)
        /\ snapshots_saved = Len(saves)
        /\ committed = before

\* ------------------------------------------------------------------- C16
\* C16: Unexpected-exception containment.  When a source's fetch() or the
\* analysis raised an exception that is not a SourceError, the update() has
\* returned an empty list and the driver loop goes on: main() has not been
\* ended by the exception.
UnexpectedContained ==
    (iter_pc = "idle" /\ failure \in {"fetch", "analysis"}) =>
        /\ update_result = ReturnedList(<<>>)
        /\ driver_pc # "crashed"

\* ---------------------------------------------------- claims: the analysis
\* list[i].score >= list[j].score whenever i is before j
ScoresDescend(list) ==
    \A i \in DOMAIN list : \A j \in DOMAIN list :
        i < j => list[i].score >= list[j].score

\* the trends of the ranking that reach min_score, in ranking order
Kept == SelectSeq(trends_out, LAMBDA trend : trend.score >= min_score)

\* ------------------------------------------------------------------- C17
\* C17: Result filtering.  The list update() returns contains only trends
\* with score >= min_score, has at most top_k elements, is in non-increasing
\* score order, and is the first top_k elements of what is left of the
\* ranking after the trends below min_score are removed.
ResultFiltering ==
    score_pc = "filtered" =>
        /\ \A i \in DOMAIN filtered_out : filtered_out[i].score >= min_score
        /\ Len(filtered_out) <= top_k
        /\ ScoresDescend(filtered_out)
        /\ Len(filtered_out) = (IF top_k < Len(Kept) THEN top_k ELSE Len(Kept))
        /\ \A i \in DOMAIN filtered_out : filtered_out[i] = Kept[i]

\* a ranking of three trends of which one is below min_score and one more
\* is cut by top_k, the returned trend having exactly min_score
ResultFilteringWitness ==
    /\ score_pc = "filtered"
    /\ Len(trends_out) = 3
    /\ Len(Kept) = 2
    /\ top_k = 1
    /\ Len(filtered_out) = 1
    /\ filtered_out[1].score = min_score

\* --------------------------------------------- claims: scoring, helpers
\* number of positions of a list that hold k
Occurrences(list, k) == Cardinality({i \in DOMAIN list : list[i] = k})

\* title and summary occurrences of k, summed over all items
RECURSIVE TitleCount(_, _)
TitleCount(its, k) ==
    IF its = <<>> THEN 0
    ELSE Occurrences(Head(its).title_keywords, k) + TitleCount(Tail(its), k)

RECURSIVE SummaryCount(_, _)
SummaryCount(its, k) ==
    IF its = <<>> THEN 0
    ELSE Occurrences(Head(its).summary_keywords, k) + SummaryCount(Tail(its), k)

\* the keywords in the order score_trends meets them
RECURSIVE KeywordStream(_)
KeywordStream(its) ==
    IF its = <<>> THEN <<>>
    ELSE Head(its).title_keywords \o Head(its).summary_keywords
            \o KeywordStream(Tail(its))

AllKeywords == {KeywordStream(scored_items)[i] : i \in DOMAIN KeywordStream(scored_items)}

FirstSeen(k) ==
    CHOOSE i \in DOMAIN KeywordStream(scored_items) :
        /\ KeywordStream(scored_items)[i] = k
        /\ \A j \in 1..(i - 1) : KeywordStream(scored_items)[j] # k

\* item contributes to k
Contributes(item, k) ==
    Occurrences(item.title_keywords, k) + Occurrences(item.summary_keywords, k) > 0

\* the contributing items of k, each once, in order of first contribution
RECURSIVE Contributors(_, _, _)
Contributors(its, k, sofar) ==
    IF its = <<>> THEN sofar
    ELSE IF Contributes(Head(its), k) /\ \A i \in DOMAIN sofar : sofar[i] # Head(its)
    THEN Contributors(Tail(its), k, Append(sofar, Head(its)))
    ELSE Contributors(Tail(its), k, sofar)

\* every item has base weight 1: its age is 0 or there is no decay
AllBaseOne ==
    \A i \in DOMAIN scored_items :
        decay_hours = 0 \/ score_now <= scored_items[i].published

\* max(title_weight, 0) times the title occurrences plus max(summary_weight, 0)
\* times the summary occurrences, in the unit of scores
PlainSum(k) ==
    One * (Max(title_weight, 0) * TitleCount(scored_items, k)
           + Max(summary_weight, 0) * SummaryCount(scored_items, k))

\* the item lists are as claimed
ItemListsInOrder ==
    \A i \in DOMAIN trends_out :
        trends_out[i].items = Contributors(scored_items, trends_out[i].keyword, <<>>)

\* ------------------------------------------------------------------- C18
\* C18 as stated: when every item has base weight 1, the score of each
\* keyword equals max(title_weight,0) times its title occurrences plus
\* max(summary_weight,0) times its summary occurrences summed over all items,
\* and its item list holds each contributing item once, in order of first
\* contribution.
ScoringAccumulationExact ==
    (score_pc # "input" /\ AllBaseOne) =>
        /\ \A i \in DOMAIN trends_out :
               trends_out[i].score = PlainSum(trends_out[i].keyword)
        /\ ItemListsInOrder

\* C18, amended: when every item has base weight 1, the score of each
\* keyword equals that sum rounded to 3 decimals, and its item list holds
\* each contributing item once, in order of first contribution.
ScoringAccumulation ==
    (score_pc # "input" /\ AllBaseOne) =>
        /\ \A i \in DOMAIN trends_out :
               trends_out[i].score = Round3(PlainSum(trends_out[i].keyword))
        /\ ItemListsInOrder

\* items of base weight 1, one of them twice in the input: a keyword with
\* several title and summary occurrences, two contributing items, and a sum
\* that is not a whole number of thousandths
ScoringAccumulationWitness ==
    /\ score_pc = "scored"
    /\ AllBaseOne
    /\ decay_hours # 0
    /\ \E i \in DOMAIN scored_items : \E j \in DOMAIN scored_items :
           i < j /\ scored_items[i] = scored_items[j]
    /\ \E i \in DOMAIN trends_out :
           /\ Len(trends_out[i].items) = 2
           /\ TitleCount(scored_items, trends_out[i].keyword) > 2
           /\ SummaryCount(scored_items, trends_out[i].keyword) > 0
           /\ trends_out[i].score # PlainSum(trends_out[i].keyword)

\* one trend per distinct keyword
OneTrendPerKeyword ==
    /\ {trends_out[i].keyword : i \in DOMAIN trends_out} = AllKeywords
    /\ \A i \in DOMAIN trends_out : \A j \in DOMAIN trends_out :
           trends_out[i].keyword = trends_out[j].keyword => i = j

\* ------------------------------------------------------------------- C19
\* C19 as stated: score_trends emits one trend per distinct keyword, in
\* non-increasing score order, and keywords with equal score are in the
\* order in which they were first seen.
TrendRankingEmitted ==
    score_pc # "input" =>
        /\ OneTrendPerKeyword
        /\ ScoresDescend(trends_out)
        /\ \A i \in DOMAIN trends_out : \A j \in DOMAIN trends_out :
               (i < j /\ trends_out[i].score = trends_out[j].score)
                   => FirstSeen(trends_out[i].keyword) < FirstSeen(trends_out[j].keyword)

\* C19, amended: score_trends emits one trend per distinct keyword, in
\* non-increasing score order, and keywords whose scores are equal before
\* the rounding are in the order in which they were first seen.
TrendRanking ==
    score_pc # "input" =>
        /\ OneTrendPerKeyword
        /\ ScoresDescend(trends_out)
        /\ \A i \in DOMAIN trends_out : \A j \in DOMAIN trends_out :
               (i < j /\ weight_by_keyword.weight[trends_out[i].keyword]
                            = weight_by_keyword.weight[trends_out[j].keyword])
                   => FirstSeen(trends_out[i].keyword) < FirstSeen(trends_out[j].keyword)

\* three keywords, two of them with the same score before the rounding
TrendRankingWitness ==
    /\ score_pc = "scored"
    /\ Len(trends_out) = 3
    /\ \E i \in DOMAIN trends_out : \E j \in DOMAIN trends_out :
           /\ i < j
           /\ weight_by_keyword.weight[trends_out[i].keyword]
                  = weight_by_keyword.weight[trends_out[j].keyword]
           /\ weight_by_keyword.weight[trends_out[i].keyword] > 0

\* --------------------------------------------------- claims: the language
\* L: letters a-z in either case; C: letters of the Cyrillic range in either
\* case, and yo
LatinCount ==
    Cardinality({i \in DOMAIN lang_text :
        \/ lang_text[i] \in 97..122
        \/ lang_text[i] \in 65..90})

CyrillicCount ==
    Cardinality({i \in DOMAIN lang_text :
        \/ lang_text[i] \in 1072..1103
        \/ lang_text[i] \in 1040..1071
        \/ lang_text[i] \in {1105, 1025}})

RuCondition == CyrillicCount > 0 /\ 5 * CyrillicCount >= 6 * LatinCount
EnCondition == LatinCount > 0 /\ 5 * LatinCount >= 6 * CyrillicCount

\* ------------------------------------------------------------------- C20
\* C20: Language detection.  detect_language returns ru iff C > 0 and
\* C >= 1.2 L, en iff L > 0 and L >= 1.2 C, and other in every remaining
\* case, the empty text included; the two conditions never hold together.
LanguageDetection ==
    /\ ~(RuCondition /\ EnCondition)
    /\ lang_pc = "detected" =>
        /\ lang_out = "ru" <=> RuCondition
        /\ lang_out = "en" <=> EnCondition
        /\ lang_out = "other" <=> (~RuCondition /\ ~EnCondition)
        /\ lang_text = <<>> => lang_out = "other"

\* five Latin and six Cyrillic letters, capitals among them: exactly 1.2
LanguageDetectionWitness ==
    /\ lang_pc = "detected"
    /\ LatinCount = 5
    /\ CyrillicCount = 6
    /\ \E i \in DOMAIN lang_text : lang_text[i] = 90
    /\ \E i \in DOMAIN lang_text : lang_text[i] = 1025
    /\ lang_out = "ru"

\* --------------------------------------------------- claims: the keywords
\* the normalisation as the claim reads it: after the apostrophe, one
\* rewrite - ies, else sses, else the first suffix of the list - and then
\* the nn rule
OneRewriteEn(token) ==
    LET bare == IF EndsWith(token, Chars(<<"'", "s">>)) THEN DropLast(token, 2)
                ELSE IF EndsWith(token, Chars(<<"'">>)) THEN DropLast(token, 1)
                ELSE token
        stem == IF EndsWith(bare, Chars(<<"i", "e", "s">>)) /\ Len(bare) > 4
                THEN DropLast(bare, 3) \o Chars(<<"y">>)
                ELSE IF EndsWith(bare, Chars(<<"s", "s", "e", "s">>)) /\ Len(bare) > 4
                THEN DropLast(bare, 2)
                ELSE StripFirstSuffix(bare, EN_SUFFIXES, 1)
    IN  IF Len(stem) > 3 /\ EndsWith(stem, Chars(<<"n", "n">>))
        THEN DropLast(stem, 1)
        ELSE stem

Running == Chars(<<"r", "u", "n", "n", "i", "n", "g">>)
Runners == Chars(<<"r", "u", "n", "n", "e", "r", "'", "s">>)
Cats == Chars(<<"c", "a", "t", "s">>)

\* ------------------------------------------------------------------- C21
\* C21: English normalisation without a stemmer.  After a trailing 's or '
\* is stripped, the token receives exactly one of three rewrites - ies -> y
\* (length > 4), sses -> drop the last two characters (length > 4), or
\* otherwise the removal of the first matching suffix of the ordered list
\* when the stem keeps at least 3 characters - and then a trailing nn is
\* collapsed to n when the length is above 3; running, runner's and cats
\* become run, run and cat.
EnglishNormalisation ==
    norm_pc = "normalized" =>
        /\ norm_out = OneRewriteEn(norm_token)
        /\ norm_token \in {Running, Runners} => norm_out = Chars(<<"r", "u", "n">>)
        /\ norm_token = Cats => norm_out = Chars(<<"c", "a", "t">>)

\* the tokens extract_keywords finds in its text, and the language it uses
FoundTokens == FindAll(LowerText(kw_text), <<>>)
UsedLanguage == EffectiveLanguage(kw_text, kw_language)

\* ------------------------------------------------------------------- C22
\* C22: Stopword filtering.  extract_keywords(text, L) drops every token
\* that is in the stopword set of language L - it returns no more keywords
\* than the text has tokens outside that set, and none for a text made only
\* of stopwords of L - and no returned keyword is empty or shorter than 3
\* characters.
StopwordFiltering ==
    kw_pc = "extracted" =>
        /\ Len(kw_out) <= Cardinality({i \in DOMAIN FoundTokens :
                                         FoundTokens[i] \notin Stopwords(UsedLanguage)})
        /\ (\A i \in DOMAIN FoundTokens : FoundTokens[i] \in Stopwords(UsedLanguage))
               => kw_out = <<>>
        /\ \A i \in DOMAIN kw_out : Len(kw_out[i]) >= 3

\* ------------------------------------------------- claims: the collector
\* no thread is inside a call
AllReturned == \A th \in Threads : thread_pc[th] = "idle"

\* ------------------------------------------------------------------- C23
\* C23: Thread-safe counters.  When several threads call the record_*
\* operations of one MetricsCollector concurrently no increment is lost:
\* once all calls have returned every in-memory counter equals the sum of
\* the amounts recorded for it.  And snapshot() never observes a partially
\* applied increment: what it returns is the sum of the increments written
\* before it, taken while no other thread was inside the lock.
ThreadSafeCounters ==
    /\ AllReturned => mc_snapshot = recorded
    /\ \A th \in Threads :
          /\ thread_result[th] = thread_applied[th]
          /\ thread_alone[th]

\* two threads have incremented the same counter, one of them while the
\* other was waiting for the lock, and a snapshot() in between saw the first
\* increment only
ThreadSafeCountersWitness ==
    /\ AllReturned
    /\ mc_snapshot["fetch_attempts"] = 2
    /\ recorded["fetch_attempts"] = 2
    /\ \E th \in Threads : thread_result[th]["fetch_attempts"] = 1

\* ---------------------------------------------------- claims: the factory
\* the sources the claim expects for a list of configurations: an RSS
\* adapter for kind rss, a VideoPage adapter for kind video, nothing for
\* another kind
RECURSIVE SourcesByKind(_)
SourcesByKind(configs) ==
    IF configs = <<>> THEN <<>>
    ELSE LET config == Head(configs)
             rest == SourcesByKind(Tail(configs))
         IN  IF config.kind = "rss" THEN <<Adapter("RSSSource", config)>> \o rest
             ELSE IF config.kind = "video"
                  THEN <<Adapter("VideoPageSource", config)>> \o rest
                  ELSE rest

\* ------------------------------------------------------------------- C24
\* C24: Source construction by kind.  The list _build_sources returns holds
\* an RSS adapter for every configuration of kind rss and a VideoPage
\* adapter for every configuration of kind video, in the order of the
\* configurations, and nothing for a configuration of an unknown kind.
ConstructionByKind ==
    build_pc = "returned" => build_sources = SourcesByKind(build_configs)

NoOrphan(tabs) ==
    /\ \A tr \in tabs.trends : \E sn \in tabs.snapshots : sn.id = tr.snapshot_id
    /\ \A it \in tabs.trend_items : \E tr \in tabs.trends : tr.id = it.trend_id

\* ------------------------------------------------------------------- C26
\* C26: Referential integrity of the store.  After any sequence of saves -
\* and at every statement of a save - every trends row references an
\* existing snapshot and every trend_items row references an existing
\* trend, in the connection's view and in the committed tables: the
\* retention delete removes the trends and items of the snapshots it
\* deletes.
ReferentialIntegrity == NoOrphan(tables) /\ NoOrphan(committed)

\* a snapshot that owned a trend and an item has been deleted by retention,
\* and the tables hold the one snapshot of the last save and no other row
ReferentialIntegrityWitness ==
    /\ SaveReturned
    /\ committed.seq.snapshots >= 2
    /\ committed.seq.trends >= 1
    /\ committed.seq.trend_items >= 1
    /\ Cardinality(committed.snapshots) = 1
    /\ committed.trends = {}
    /\ committed.trend_items = {}

\* an update() has returned its list to the driver
UpdateCompleted == iter_pc = "idle" /\ update_result.kind = "list"

\* ------------------------------------------------------------------- C27
\* C27: One snapshot per iteration.  Every update() that completes with a
\* storage configured has called save exactly once, with the filtered trends
\* it returns and the now it captured, also when the list is empty; without
\* a storage it has not called save.  After any sequence of updates the
\* snapshots_saved counter is the number of save calls that returned.
OneSnapshotPerIteration ==
    /\ (UpdateCompleted /\ storage_on) =>
          /\ save_calls = 1
          /\ save_args = [trends |-> computed, generated_at |-> iter_now]
          /\ update_result = ReturnedList(computed)
          /\ SaveReturned
    /\ (UpdateCompleted /\ ~storage_on) => save_calls = 0
    /\ iter_pc = "idle" => snapshots_saved = Len(saves)

\* the second update() of a monitor with a storage has completed with an
\* empty trend list, and both snapshots are counted
OneSnapshotPerIterationWitness ==
    /\ UpdateCompleted
    /\ storage_on
    /\ updates = 2
    /\ computed = <<>>
    /\ save_calls = 1
    /\ snapshots_saved = 2
    /\ Len(saves) = 2

\* main() is over: it returned, or an exception ended it
MainOver == driver_pc \in {"exited", "crashed"}

\* an update() is called
UpdateStarts == updates' = updates + 1

\* ------------------------------------------------------------------- C30
\* C30: Driver loop.  Updates are invoked strictly serially: the next
\* update() starts only after the one before it returned, its trends were
\* printed and the interval sleep was over.  With --once exactly one update
\* runs, no interval sleep is performed and main() returns exit code 0.
DriverLoop ==
    /\ [][(UpdateStarts /\ updates >= 1) =>
            /\ UpdateCompleted
            /\ prints = updates
            /\ sleeps = updates]_vars
    /\ []((once /\ MainOver) =>
            /\ updates = 1
            /\ sleeps = 0
            /\ exit_code = 0)

\* the same for the runs of main() in which no update() raises
DriverLoopWithoutFailure ==
    /\ [][(UpdateStarts /\ updates >= 1) =>
            /\ UpdateCompleted
            /\ prints = updates
            /\ sleeps = updates]_vars
    /\ []((once /\ driver_pc = "exited") =>
            /\ updates = 1
            /\ sleeps = 0
            /\ exit_code = 0)
    /\ [](~once => driver_pc # "exited")

\* the backoff of a source: its config's when it has one, else the monitor's,
\* never below zero
ClaimedBackoff(s) ==
    IF sources[s].has_config
    THEN (IF sources[s].retry_backoff >= 0 THEN sources[s].retry_backoff ELSE 0)
    ELSE fetch_retry_backoff

\* b raised to the power e
RECURSIVE ToThePower(_, _)
ToThePower(b, e) == IF e = 0 THEN 1 ELSE ToThePower(b, e - 1) * b

\* delay = backoff when backoff <= 1, else backoff^(attempt-1)
ClaimedDelay(s, a) ==
    LET b == ClaimedBackoff(s)
    IN  IF b <= 1 THEN b ELSE ToThePower(b, a - 1)

\* the step in which an attempt of the task fails
AttemptFails(s) == raised'[s] = raised[s] + 1

\* the wait is delay*jitter for a jitter in [0.5, 1.5] (wait_time in tenths)
InJitterRange(s, a, w) ==
    /\ w # None
    /\ 5 * ClaimedDelay(s, a) <= w
    /\ w <= 15 * ClaimedDelay(s, a)

\* C28: Retry accounting and backoff. Within an update, a step records a retry
\* for a source exactly when an attempt of that source fails and is not its
\* last one, and records exactly one; that step draws a wait of delay*jitter
\* with jitter in [0.5, 1.5] and delay = backoff when backoff <= 1, else
\* backoff^(attempt-1); when the wait is positive the task sleeps and no
\* attempt or fetch is made for it until the sleep is over, and only then the
\* attempt number goes up; the failure of the last attempt records no retry,
\* draws no wait and ends the task without a sleep.
RetryBackoff ==
    /\ [][\A s \in Src :
            /\ (AttemptFails(s) /\ attempt[s] # Budget(s)) =>
                  /\ m_retries'[s] = m_retries[s] + 1
                  /\ InJitterRange(s, attempt[s], wait_time'[s])
                  /\ IF wait_time'[s] > 0
                     THEN pc'[s] = "sleeping" /\ attempt'[s] = attempt[s]
                     ELSE pc'[s] = "start" /\ attempt'[s] = attempt[s] + 1
            /\ (AttemptFails(s) /\ attempt[s] = Budget(s)) =>
                  /\ m_retries'[s] = m_retries[s]
                  /\ wait_time'[s] = None
                  /\ pc'[s] = "done"
            /\ (phase = "fetch" /\ ~AttemptFails(s)) => m_retries'[s] = m_retries[s]
            /\ pc[s] = "sleeping" =>
                  /\ m_attempts'[s] = m_attempts[s]
                  /\ calls'[s] = calls[s]
                  /\ pc'[s] \in {"sleeping", "start"}
                  /\ pc'[s] = "start" => attempt'[s] = attempt[s] + 1
         ]_vars
    /\ [](\A s \in Src :
            pc[s] = "sleeping" =>
                wait_time[s] # 0 /\ InJitterRange(s, attempt[s], wait_time[s]))

\* a task sleeps after its second failed attempt with a delay of 2 = 2^(2-1)
\* and the largest jitter, having recorded two retries
RetryBackoffWitness ==
    \E s \in Src :
        /\ pc[s] = "sleeping"
        /\ attempt[s] = 2
        /\ ClaimedBackoff(s) = 2
        /\ wait_time[s] = 30
        /\ m_retries[s] = 2

\* a fetch task of the update is still running, waiting or sleeping
Gathering == phase = "fetch" /\ \E s \in Src : pc[s] # "done"

\* C29: No mutation during the fetch phase. While a fetch task of the update
\* has not finished (attempts, retries and backoff sleeps included), no step
\* changes the event buffer or either dedup map; they change only in the one
\* step that follows the end of the last task and returns from update().
NoMutationDuringFetch ==
    /\ [][Gathering => UNCHANGED buffer]_vars
    /\ [][~UNCHANGED buffer => (phase = "fetch" /\ ~Gathering /\ Returning)]_vars

\* in the middle of a fetch phase: one task returned items, another sleeps
\* before a retry, and the buffer still holds the events and marks of the
\* update before
NoMutationDuringFetchWitness ==
    /\ phase = "fetch"
    /\ \E s \in Src : pc[s] = "done" /\ fetch_results[s] # <<>>
    /\ \E s \in Src : pc[s] = "sleeping"
    /\ events # <<>>
    /\ seen_by_fp # EmptyMap

\* ------------------------------------------------------------------- C31
\* main() is over without an error: it returned 0 (after --once or after
\* Ctrl+C) or a signal ended it with SystemExit(0)
CleanShutdown == driver_pc \in {"exited", "stopped"}

\* C31: Store handle lifetime.  The database handle opened when main()
\* constructs the store is closed whenever main() is over on a clean
\* shutdown path: after --once, on a signal and on Ctrl+C.
StoreHandleLifetime == [](CleanShutdown => ~conn_open)

\* ------------------------------------------------------------------- C32
\* the fingerprints and the item ids of the buffered events
BufferedFps == {events[i].fingerprint : i \in DOMAIN events}
BufferedIds == {events[i].item.id : i \in DOMAIN events}

\* C32: Dedup entries are backed by buffered events.  After every completed
\* update() each key of _seen_by_fp is the fingerprint of an event of the
\* buffer and each key of _seen_by_id is the item.id of an event of the
\* buffer.
DedupBacked ==
    /\ DOMAIN seen_by_fp \subseteq BufferedFps
    /\ DOMAIN seen_by_id \subseteq BufferedIds

\* an update has pruned an event and taken its marks with it, the buffer
\* holds an event that has no entry in either map (the converse fails), and
\* another one that has both
DedupBackedWitness ==
    /\ pruned_ids # {}
    /\ \E i \in DOMAIN events :
          /\ events[i].fingerprint \notin DOMAIN seen_by_fp
          /\ events[i].item.id \notin DOMAIN seen_by_id
    /\ \E i \in DOMAIN events :
          /\ events[i].fingerprint \in DOMAIN seen_by_fp
          /\ events[i].item.id \in DOMAIN seen_by_id

\* ------------------------------------------------------------------- C33
\* the step in which the running RSSSource.fetch() raises SourceError
RssFetchRaises == rss_pc = "requesting" /\ rss_pc' = "idle" /\ produced' = Raised

\* C33: A failed fetch leaves validators untouched.  Whenever
\* RSSSource.fetch() raises SourceError (network error, status >= 400, or a
\* body that does not parse), _last_etag and _last_modified have the values
\* they had before the call, so that the next call sends the conditional
\* headers the failed call sent.
FailedFetchKeepsValidators ==
    [][RssFetchRaises =>
          /\ last_etag' = last_etag
          /\ last_modified' = last_modified
          /\ RequestHeaders(last_modified', last_etag') = request_headers]_vars

\* ------------------------------------------------------------------- C37
\* the step in which the running fetch() receives a 2xx response
Receives2xx ==
    rss_pc = "requesting" /\ rss_pc' = "idle" /\ Is2xx(last_response'.status)

\* the step in which fetch() sends its request
SendsRequest == rss_pc = "idle" /\ rss_pc' = "requesting"

\* C37: Validators follow the latest 2xx response.  A 2xx response without
\* an ETag (or without a Last-Modified) header clears the cached validator,
\* whatever an earlier response had supplied, and it stays cleared until a
\* response supplies one; a request sent while a validator is cleared has
\* no If-None-Match (or no If-Modified-Since) header.
ValidatorsFollow2xx ==
    /\ [][Receives2xx =>
            /\ (last_response'.etag = Absent => last_etag' = Absent)
            /\ (last_response'.last_modified = Absent => last_modified' = Absent)]_vars
    /\ [][(last_etag = Absent /\ last_etag' # Absent) =>
            (rss_pc = "requesting" /\ last_response'.etag = last_etag')]_vars
    /\ [][(last_modified = Absent /\ last_modified' # Absent) =>
            (rss_pc = "requesting" /\ last_response'.last_modified = last_modified')]_vars
    /\ [][SendsRequest =>
            /\ (last_etag = Absent => request_headers'.if_none_match = Absent)
            /\ (last_modified = Absent =>
                  request_headers'.if_modified_since = Absent)]_vars

\* a fetch() that sent both conditional headers, supplied by an earlier
\* response, received a 2xx response without validators: both are cleared
ValidatorsFollow2xxWitness ==
    /\ rss_pc = "idle"
    /\ request_headers.if_none_match = <<"x">>
    /\ request_headers.if_modified_since = <<"m">>
    /\ Is2xx(last_response.status)
    /\ last_response.etag = Absent
    /\ last_response.last_modified = Absent
    /\ last_etag = Absent
    /\ last_modified = Absent

\* ------------------------------------------------------------------- C34
\* the sum of a per-source counter over the first n sources
RECURSIVE SumTo(_, _)
SumTo(counter, n) == IF n = 0 THEN 0 ELSE SumTo(counter, n - 1) + counter[n]

\* what the update added to a key of the collector's snapshot
Added(counter) == SumTo(counter, Len(sources))

\* the sources that gave up, among the first n
RECURSIVE GaveUpTo(_)
GaveUpTo(n) == IF n = 0 THEN 0 ELSE GaveUpTo(n - 1) + (IF GaveUp(n) THEN 1 ELSE 0)

\* an attempt of the task is recorded and its outcome is not yet
Unsettled(s) == IF phase = "fetch" /\ pc[s] \in {"waiting", "fetching"} THEN 1 ELSE 0

\* C34: Fetch-metric balance.  Each completed update (its fetches raise
\* nothing but SourceError) adds to fetch_attempts what it adds to
\* fetch_success, fetch_not_modified, fetch_failures and fetch_retries
\* together, source by source and in total, and adds to fetch_failures one
\* for each source that gave up in it and nothing else; so the totals of the
\* collector balance after any sequence of completed updates.  While an
\* update runs the two sides differ by the attempts whose outcome is open.
FetchMetricBalance ==
    /\ \A s \in Src :
          /\ m_attempts[s] = m_success[s] + m_not_modified[s] + m_failures[s]
                               + m_retries[s] + Unsettled(s)
          /\ phase = "idle" => m_failures[s] = (IF GaveUp(s) THEN 1 ELSE 0)
    /\ phase = "idle" =>
          /\ Added(m_attempts) = Added(m_success) + Added(m_not_modified)
                                   + Added(m_failures) + Added(m_retries)
          /\ Added(m_failures) = GaveUpTo(Len(sources))

\* a completed update in which one source gave up after a retry, one was
\* answered not-modified at once and one succeeded at its second attempt
FetchMetricBalanceWitness ==
    /\ phase = "idle"
    /\ \E s \in Src : m_failures[s] = 1 /\ m_retries[s] = 1 /\ m_attempts[s] = 2
    /\ \E s \in Src : m_not_modified[s] = 1 /\ m_attempts[s] = 1
    /\ \E s \in Src : m_success[s] = 1 /\ m_retries[s] = 1

\* ------------------------------------------------------------------- C35
\* the tasks that are inside async with semaphore
Holders == {s \in Src : phase = "fetch" /\ pc[s] = "fetching"}

\* C35: Fetch phase terminates without leaking permits.  The permits in use
\* are exactly those of the tasks whose source.fetch() is running: a task
\* that sleeps before a retry, waits or is done holds none, and there is at
\* least one permit whatever fetch_concurrency was given.  Hence, every
\* fetch() call coming back, every task of an update that started finishes
\* and the update returns.
FetchPhaseTerminates ==
    /\ [](fetch_concurrency >= 1)
    /\ [](semaphore = fetch_concurrency - Cardinality(Holders))
    /\ [](semaphore >= 0)
    /\ (phase = "fetch") ~> ((\A s \in Src : pc[s] = "done") /\ phase = "idle")

\* two tasks share the one permit of a monitor that was given a concurrency
\* of 0: one has failed its attempt and sleeps without the permit, the other
\* runs its fetch() with it
FetchPhaseTerminatesWitness ==
    /\ phase = "fetch"
    /\ fetch_concurrency = 1
    /\ semaphore = 0
    /\ \E s \in Src : pc[s] = "sleeping"
    /\ \E s \in Src : pc[s] = "fetching" /\ calls[s] = 1

\* ------------------------------------------------------------------- C36
\* the events the returning update appended for item it of source s
AdmittedOf(s, it) ==
    {k \in DOMAIN admitted' : admitted'[k].source = s /\ admitted'[k].item = it}

\* the two items share a key the monitor records: a non-empty id or a
\* fingerprint
SameRecordedKey(a, b) == (a.id # <<>> /\ a.id = b.id) \/ Fingerprint(a) = Fingerprint(b)

\* neither key of the item is marked when the update starts
UnmarkedAtStart(a) ==
    /\ ~(a.id \in DOMAIN seen_by_id /\ seen_by_id[a.id] > now)
    /\ ~(Fingerprint(a) \in DOMAIN seen_by_fp /\ seen_by_fp[Fingerprint(a)] > now)

\* no item that precedes item i of source s in the update (a source before s
\* in the list, or an earlier entry of the same response) shares a recorded
\* key with it
FirstOfItsKeys(s, i) ==
    /\ \A r \in Src : r < s =>
          \A k \in DOMAIN fetch_results[r] :
              ~SameRecordedKey(fetch_results[r][k], fetch_results[s][i])
    /\ \A k \in DOMAIN fetch_results[s] :
          k < i => ~SameRecordedKey(fetch_results[s][k], fetch_results[s][i])

\* the sources whose result has an item with this id, or this fingerprint
ReturnedId(id) ==
    {s \in Src : \E i \in DOMAIN fetch_results[s] : fetch_results[s][i].id = id}
ReturnedFp(fp) ==
    {s \in Src : \E i \in DOMAIN fetch_results[s] :
                    Fingerprint(fetch_results[s][i]) = fp}

\* the first of a set of sources in the source list
FirstOf(srcs) == CHOOSE s \in srcs : \A r \in srcs : s <= r

\* C36 as stated: when two sources return items with the same id, or with
\* the same fingerprint, in one update, exactly one event with that id
\* (fingerprint) is admitted by the update and its source is the first in the
\* source list of those that returned it.
CrossSourceDedupAlways ==
    [][Returning =>
          /\ \A id \in Ids :
                Cardinality(ReturnedId(id)) >= 2 =>
                    \E k \in DOMAIN admitted' :
                        /\ admitted'[k].item.id = id
                        /\ admitted'[k].source = FirstOf(ReturnedId(id))
                        /\ \A m \in DOMAIN admitted' :
                              admitted'[m].item.id = id => m = k
          /\ \A fp \in Fps :
                Cardinality(ReturnedFp(fp)) >= 2 =>
                    \E k \in DOMAIN admitted' :
                        /\ admitted'[k].fingerprint = fp
                        /\ admitted'[k].source = FirstOf(ReturnedFp(fp))
                        /\ \A m \in DOMAIN admitted' :
                              admitted'[m].fingerprint = fp => m = k]_vars

\* C36 amended: with a positive effective dedup_ttl, when two sources return
\* items with the same non-empty id or the same fingerprint in one update, at
\* most one event is admitted for the two; and when the item of the source
\* that comes first in the list is not marked as seen at the start of the
\* update and is the first of the update to carry its keys, exactly one
\* event is admitted and it is that item, attributed to that source,
\* whatever the order in which the fetches completed.
CrossSourceDedup ==
    [][(Returning /\ dedup_ttl > 0) =>
          \A s1, s2 \in Src : s1 < s2 =>
              \A i \in DOMAIN fetch_results[s1] : \A j \in DOMAIN fetch_results[s2] :
                  LET a == fetch_results[s1][i]
                      b == fetch_results[s2][j]
                  IN  SameRecordedKey(a, b) =>
                        /\ Cardinality(AdmittedOf(s1, a) \cup AdmittedOf(s2, b)) <= 1
                        /\ (UnmarkedAtStart(a) /\ FirstOfItsKeys(s1, i)) =>
                              /\ Cardinality(AdmittedOf(s1, a)) = 1
                              /\ AdmittedOf(s2, b) = {}]_vars

\* the second source completed first and returned the item twice, the first
\* source returned it once: the one event of the update is the first
\* source's, the item of the second was passed over
CrossSourceDedupWitness ==
    /\ phase = "idle"
    /\ dedup_ttl > 0
    /\ finished = <<2, 1>>
    /\ admitted = <<Event(1, ItemOld, now)>>
    /\ skipped = {ItemOld}

\* ------------------------------------------------------------------- C38
\* the dedup entries of the events the update appended, where they are
\* still there after the prune and the sweep, expire at now + retention
ExpireAfterRetention ==
    \A k \in DOMAIN admitted' :
        /\ admitted'[k].fingerprint \in DOMAIN seen_by_fp' =>
              seen_by_fp'[admitted'[k].fingerprint] = now' + retention
        /\ admitted'[k].item.id \in DOMAIN seen_by_id' =>
              seen_by_id'[admitted'[k].item.id] = now' + retention

\* no two events the update appended are the same item
NoRepeatWithinUpdate ==
    \A i, j \in DOMAIN admitted' : i < j => admitted'[i].item # admitted'[j].item

\* C38 as stated: a monitor constructed with a dedup_ttl of zero has an
\* effective TTL equal to its retention, the entries written on admission
\* expire at now + retention, and an item returned twice within one update
\* is admitted once.
ZeroTtlUnsetAlways ==
    /\ [](dedup_ttl_arg = 0 => dedup_ttl = retention)
    /\ [][dedup_ttl_arg = 0 => (ExpireAfterRetention /\ NoRepeatWithinUpdate)]_vars

\* C38 amended: the same, the single admission of a repeated item being
\* claimed for a positive retention only.
ZeroTtlUnset ==
    /\ [](dedup_ttl_arg = 0 => dedup_ttl = retention)
    /\ [][dedup_ttl_arg = 0 =>
            /\ ExpireAfterRetention
            /\ retention > 0 => NoRepeatWithinUpdate]_vars

\* a monitor given a dedup_ttl of 0 and a retention of 2 was returned an item
\* twice in one update: it appended it once and its entries expire two ticks
\* later
ZeroTtlUnsetWitness ==
    /\ dedup_ttl_arg = 0
    /\ retention = 2
    /\ admitted = <<Event(1, ItemOld, now)>>
    /\ skipped = {ItemOld}
    /\ seen_by_id = (<<"a">> :> (now + 2))
    /\ seen_by_fp = (Fingerprint(ItemOld) :> (now + 2))

=============================================================================
